---- MODULE Spec2Model ----
(***************************************************************************)
(* A model of the PRD/BRD analysis backend (server.py): the Gemini service *)
(* with its two orchestrators (analyze_document, generate_workflow), the   *)
(* response normalisation inlined in generate_workflow, the fallback       *)
(* workflow synthesizer and the HTTP routes in front of them.              *)
(*                                                                         *)
(* JSON values are tagged records, t being the JSON type:                  *)
(*   [t |-> "null"], [t |-> "num", v |-> 3], [t |-> "str", v |-> "a"],     *)
(*   [t |-> "arr", v |-> <<...>>], [t |-> "obj", v |-> [key |-> value]].   *)
(* A text (the candidate text of an upstream answer) is a sequence of      *)
(* whitespace-separated segments: a code-fence marker, a run of prose, or  *)
(* the serialisation of one JSON value.                                    *)
(***************************************************************************)
EXTENDS Integers, Sequences, FiniteSets, TLC

(***************************************************************************)
(* JSON values                                                             *)
(***************************************************************************)
JNull == [t |-> "null"]
JNum(n) == [t |-> "num", v |-> n]
JStr(s) == [t |-> "str", v |-> s]
JArr(items) == [t |-> "arr", v |-> items]
JObj(fields) == [t |-> "obj", v |-> fields]

\* dict.get(key, default) on a JSON object
Get(obj, key, default) ==
    IF key \in DOMAIN obj.v THEN obj.v[key] ELSE default

\* the values directly contained in a JSON value, as a sequence
RECURSIVE SetToSeq(_)
SetToSeq(S) ==
    IF S = {} THEN <<>>
    ELSE LET e == CHOOSE e \in S : TRUE IN <<e>> \o SetToSeq(S \ {e})

Children(v) ==
    CASE v.t = "arr" -> v.v
      [] v.t = "obj" -> [i \in 1..Len(SetToSeq(DOMAIN v.v)) |-> v.v[SetToSeq(DOMAIN v.v)[i]]]
      [] OTHER -> <<>>

(***************************************************************************)
(* Texts                                                                   *)
(***************************************************************************)
FenceJson == [s |-> "fence", lang |-> "json"]     \* ```json
FencePlain == [s |-> "fence", lang |-> ""]        \* ```
Prose(w) == [s |-> "prose", w |-> w]              \* w: "words", "[note]", "{note}", "json"
Json(v) == [s |-> "json", v |-> v]                \* the serialisation of v

\* content.strip(), then the removal of the markdown code-fence markers:
\* a text starting with ```json loses every ```json and every ```; a text
\* starting with ``` loses every ```, which leaves the word json of any
\* later ```json marker behind.
StripFence(text) ==
    IF text # <<>> /\ Head(text) = FenceJson
    THEN SelectSeq(text, LAMBDA seg : seg.s # "fence")
    ELSE IF text # <<>> /\ Head(text) = FencePlain
    THEN LET rest == SelectSeq(text, LAMBDA seg : seg # FencePlain)
         IN [i \in 1..Len(rest) |-> IF rest[i] = FenceJson THEN Prose("json") ELSE rest[i]]
    ELSE text

\* json.loads: a text parses exactly when it is the serialisation of one value
Failed == [ok |-> FALSE]
Parsed(v) == [ok |-> TRUE, v |-> v]
JsonLoads(text) ==
    IF Len(text) = 1 /\ text[1].s = "json" THEN Parsed(text[1].v) ELSE Failed

\* The stretch of the serialisation of v from the first opening to the last
\* closing delimiter of JSON type c ("arr": [ ], "obj": { }): n = 0 when v
\* has no such delimiter, n = 1 with the value when the stretch is exactly
\* the serialisation of one value, n = 2 when it is not parseable.
NoSpan == [n |-> 0]
OneSpan(v) == [n |-> 1, v |-> v]
BrokenSpan == [n |-> 2]
RECURSIVE Span(_, _)
Span(v, c) ==
    IF v.t = c THEN OneSpan(v)
    ELSE LET kids == Children(v)
             hit == {i \in 1..Len(kids) : Span(kids[i], c).n > 0}
         IN IF hit = {} THEN NoSpan
            ELSE IF Cardinality(hit) = 1 THEN Span(kids[CHOOSE i \in hit : TRUE], c)
            ELSE BrokenSpan

SegSpan(seg, c) ==
    CASE seg.s = "json" -> Span(seg.v, c)
      [] seg.s = "prose" /\ seg.w = "[note]" /\ c = "arr" -> BrokenSpan
      [] seg.s = "prose" /\ seg.w = "{note}" /\ c = "obj" -> BrokenSpan
      [] OTHER -> NoSpan

\* re.search(r'\[.*\]', content, re.DOTALL) (c = "arr") and
\* re.search(r'\{.*\}', content, re.DOTALL) (c = "obj") followed by
\* json.loads(match.group()): greedy, from the first opening delimiter of
\* the whole text to its last closing one.
\* match = FALSE: no match; ok = FALSE: the matched stretch does not parse.
RegexLoads(text, c) ==
    LET hit == {i \in 1..Len(text) : SegSpan(text[i], c).n > 0}
    IN IF hit = {} THEN [match |-> FALSE, ok |-> FALSE]
       ELSE IF Cardinality(hit) = 1 /\ SegSpan(text[CHOOSE i \in hit : TRUE], c).n = 1
       THEN [match |-> TRUE, ok |-> TRUE, v |-> SegSpan(text[CHOOSE i \in hit : TRUE], c).v]
       ELSE [match |-> TRUE, ok |-> FALSE]

(***************************************************************************)
(* WorkflowNode and the conversion of a parsed value into nodes            *)
(***************************************************************************)
\* str(i) for the small naturals the model formats
ToStr(i) ==
    CASE i = 0 -> "0" [] i = 1 -> "1" [] i = 2 -> "2" [] i = 3 -> "3"
      [] i = 4 -> "4" [] i = 5 -> "5" [] i = 6 -> "6" [] i = 7 -> "7"
      [] i = 8 -> "8" [] i = 9 -> "9"

WorkflowNode(id, type, label, x, y, connections) ==
    [id |-> id, type |-> type, label |-> label, x |-> x, y |-> y,
     connections |-> connections]

\* Python truthiness of a JSON value (`if target:`)
Truthy(v) ==
    CASE v.t = "null" -> FALSE
      [] v.t = "str" -> v.v # ""
      [] v.t = "num" -> v.v # 0
      [] v.t = "arr" -> v.v # <<>>
      [] v.t = "obj" -> DOMAIN v.v # {}

\* `for conn in connections` with its two isinstance branches: a connection
\* object contributes its truthy target, a bare string itself, anything
\* else nothing.  A truthy target that is not a string is appended as it is
\* and fails the List[str] validation of WorkflowNode afterwards.
RECURSIVE ConnectionList(_)
\* variant: a connection object contributes its label instead of its target
RECURSIVE ConnectionList_Labels(_)
ConnectionList_Labels(conns) ==
    IF conns = <<>> THEN <<>>
    ELSE LET conn == Head(conns)
             label == Get(conn, "label", JStr(""))
             here == CASE conn.t = "obj" -> IF Truthy(label) THEN <<label>> ELSE <<>>
                       [] conn.t = "str" -> <<conn>>
                       [] OTHER -> <<>>
         IN here \o ConnectionList_Labels(Tail(conns))

ConnectionList(conns) ==
    IF conns = <<>> THEN <<>>
    ELSE LET conn == Head(conns)
             target == Get(conn, "target", JStr(""))
             here == CASE conn.t = "obj" -> IF Truthy(target) THEN <<target>> ELSE <<>>
                       [] conn.t = "str" -> <<conn>>
                       [] OTHER -> <<>>
         IN here \o ConnectionList(Tail(conns))

\* The characters of a string, for the strings the model iterates over.
Chars(s) ==
    CASE s = "" -> <<>>
      [] s = "b" -> <<"b">>
      [] s = "ab" -> <<"a", "b">>
\* The keys of an object in the order its document writes them: the
\* model's documents write their keys in the order of KeyOrder.
KeyOrder ==
    <<"id", "type", "target", "label", "x", "y", "connections", "workflow", "nodes", "data">>
Keys(fields) ==
    CASE DOMAIN fields \subseteq {KeyOrder[k] : k \in 1..Len(KeyOrder)} ->
           SelectSeq(KeyOrder, LAMBDA key : key \in DOMAIN fields)
\* `for conn in connections`: the elements of a list, the characters of a
\* string, the keys of a dict; None and a number raise TypeError
CanIterate(v) == v.t \in {"arr", "str", "obj"}
Iterate(v) ==
    CASE v.t = "arr" -> v.v
      [] v.t = "str" -> [k \in 1..Len(Chars(v.v)) |-> JStr(Chars(v.v)[k])]
      [] v.t = "obj" -> [k \in 1..Len(Keys(v.v)) |-> JStr(Keys(v.v)[k])]

\* The strings pydantic reads as an int (digits, white space around them
\* allowed), among the strings of the model, with the int they give.
NumericStrings == {"5", " 5 ", "7"}
IntOfString(s) ==
    CASE s = "5" -> 5
      [] s = " 5 " -> 5
      [] s = "7" -> 7
\* `x: int`, `y: int` in pydantic's default mode: an int, or a numeric
\* string converted to its int
IsIntArg(v) == v.t = "num" \/ (v.t = "str" /\ v.v \in NumericStrings)
IntArg(v) == IF v.t = "num" THEN v.v ELSE IntOfString(v.v)

\* pydantic validation of the keyword arguments of WorkflowNode(...)
ValidNodeArgs(id, type, label, x, y, conns) ==
    /\ id.t = "str" /\ type.t = "str" /\ label.t = "str"
    /\ IsIntArg(x) /\ IsIntArg(y)
    /\ \A i \in 1..Len(conns) : conns[i].t = "str"

\* variant: the default abscissa does not depend on the index
NodeOf_FixedX(node_data, i, x0, dx) ==
    LET connections == Get(node_data, "connections", JArr(<<>>))
        id == Get(node_data, "id", JStr("node_" \o ToStr(i)))
        type == Get(node_data, "type", JStr("process"))
        label == Get(node_data, "label", JStr("Step " \o ToStr(i + 1)))
        x == Get(node_data, "x", JNum(x0))
        y == Get(node_data, "y", JNum(100))
    IN IF ~CanIterate(connections) THEN [raised |-> TRUE]
       ELSE LET cl == ConnectionList(Iterate(connections))
            IN IF ~ValidNodeArgs(id, type, label, x, y, cl) THEN [raised |-> TRUE]
               ELSE [raised |-> FALSE,
                     node |-> WorkflowNode(id.v, type.v, label.v, IntArg(x), IntArg(y),
                                           [k \in 1..Len(cl) |-> cl[k].v])]

\* The body of `for i, node_data in enumerate(workflow_data)` for one dict
\* element at zero-based index i; x0 + i * dx is the default abscissa.
\* raised: a TypeError (connections None or a number) or a ValidationError.
NodeOf(node_data, i, x0, dx) ==
    LET connections == Get(node_data, "connections", JArr(<<>>))
        id == Get(node_data, "id", JStr("node_" \o ToStr(i)))
        type == Get(node_data, "type", JStr("process"))
        label == Get(node_data, "label", JStr("Step " \o ToStr(i + 1)))
        x == Get(node_data, "x", JNum(x0 + i * dx))
        y == Get(node_data, "y", JNum(100))
    IN IF ~CanIterate(connections) THEN [raised |-> TRUE]
       ELSE LET cl == ConnectionList(Iterate(connections))
            IN IF ~ValidNodeArgs(id, type, label, x, y, cl) THEN [raised |-> TRUE]
               ELSE [raised |-> FALSE,
                     node |-> WorkflowNode(id.v, type.v, label.v, IntArg(x), IntArg(y),
                                           [k \in 1..Len(cl) |-> cl[k].v])]

\* What `enumerate(workflow_data)` iterates over: the elements of a list;
\* the keys of a dict and the characters of a string are strings, none of
\* them a dict, so they yield no node; a number or null is not iterable.
Iterable(data) == data.t \in {"arr", "obj", "str"}
Elements(data) == IF data.t = "arr" THEN data.v ELSE <<>>

\* variant: the index counts the nodes built so far, not the elements
RECURSIVE BuildFrom_CountsNodes(_, _, _, _)
BuildFrom_CountsNodes(items, i, x0, dx) ==
    IF i > Len(items) THEN [raised |-> FALSE, nodes |-> <<>>]
    ELSE IF items[i].t # "obj" THEN BuildFrom_CountsNodes(items, i + 1, x0, dx)
    ELSE LET built == Len(SelectSeq(SubSeq(items, 1, i - 1), LAMBDA e : e.t = "obj"))
             one == NodeOf(items[i], built, x0, dx)
         IN IF one.raised THEN [raised |-> TRUE, nodes |-> <<>>]
            ELSE LET rest == BuildFrom_CountsNodes(items, i + 1, x0, dx)
                 IN IF rest.raised THEN rest
                    ELSE [raised |-> FALSE, nodes |-> <<one.node>> \o rest.nodes]

\* The node-building loop over workflow_data, elements from index i on.
RECURSIVE BuildFrom(_, _, _, _)
BuildFrom(items, i, x0, dx) ==
    IF i > Len(items) THEN [raised |-> FALSE, nodes |-> <<>>]
    ELSE IF items[i].t # "obj" THEN BuildFrom(items, i + 1, x0, dx)
    ELSE LET one == NodeOf(items[i], i - 1, x0, dx)
         IN IF one.raised THEN [raised |-> TRUE, nodes |-> <<>>]
            ELSE LET rest == BuildFrom(items, i + 1, x0, dx)
                 IN IF rest.raised THEN rest
                    ELSE [raised |-> FALSE, nodes |-> <<one.node>> \o rest.nodes]

BuildNodes(data, x0, dx) ==
    IF ~Iterable(data) THEN [raised |-> TRUE, nodes |-> <<>>]
    ELSE BuildFrom(Elements(data), 1, x0, dx)

\* `if isinstance(workflow_data, dict) and 'workflow' in workflow_data ...
\*  elif ... 'nodes' in workflow_data ...`
Unwrap(data) ==
    IF data.t = "obj" /\ "workflow" \in DOMAIN data.v THEN data.v["workflow"]
    ELSE IF data.t = "obj" /\ "nodes" \in DOMAIN data.v THEN data.v["nodes"]
    ELSE data

(***************************************************************************)
(* Document texts: sequences of characters                                 *)
(***************************************************************************)
\* str.lower() on one character
LowerChar(c) ==
    CASE c = "A" -> "a"
      [] c = "B" -> "b"
      [] c = "C" -> "c"
      [] c = "D" -> "d"
      [] c = "E" -> "e"
      [] c = "F" -> "f"
      [] c = "G" -> "g"
      [] c = "H" -> "h"
      [] c = "I" -> "i"
      [] c = "J" -> "j"
      [] c = "K" -> "k"
      [] c = "L" -> "l"
      [] c = "M" -> "m"
      [] c = "N" -> "n"
      [] c = "O" -> "o"
      [] c = "P" -> "p"
      [] c = "Q" -> "q"
      [] c = "R" -> "r"
      [] c = "S" -> "s"
      [] c = "T" -> "t"
      [] c = "U" -> "u"
      [] c = "V" -> "v"
      [] c = "W" -> "w"
      [] c = "X" -> "x"
      [] c = "Y" -> "y"
      [] c = "Z" -> "z"
      [] OTHER -> c

\* content.lower()
Lower(text) == [i \in 1..Len(text) |-> LowerChar(text[i])]

\* `needle in text` on strings: needle occurs as a contiguous substring
Contains(text, needle) ==
    \E i \in 0..(Len(text) - Len(needle)) : SubSeq(text, i + 1, i + Len(needle)) = needle

\* the keywords of _create_smart_fallback_workflow
Kw_e_commerce == <<"e", "-", "c", "o", "m", "m", "e", "r", "c", "e">>
Kw_shopping == <<"s", "h", "o", "p", "p", "i", "n", "g">>
Kw_cart == <<"c", "a", "r", "t">>
Kw_social == <<"s", "o", "c", "i", "a", "l">>
Kw_post == <<"p", "o", "s", "t">>
Kw_media == <<"m", "e", "d", "i", "a">>
Kw_support == <<"s", "u", "p", "p", "o", "r", "t">>
Kw_ticket == <<"t", "i", "c", "k", "e", "t">>
Kw_customer == <<"c", "u", "s", "t", "o", "m", "e", "r">>
Kw_api == <<"a", "p", "i">>
Kw_integration == <<"i", "n", "t", "e", "g", "r", "a", "t", "i", "o", "n">>

\* words the modelled documents are made of
W_Shopping == <<"S", "h", "o", "p", "p", "i", "n", "g">>
W_SHOPPING == <<"S", "H", "O", "P", "P", "I", "N", "G">>
W_Cart == <<"C", "a", "r", "t">>
W_CART == <<"C", "A", "R", "T">>
W_e_commerce == <<"e", "-", "c", "o", "m", "m", "e", "r", "c", "e">>
W_Social == <<"S", "o", "c", "i", "a", "l">>
W_postpone == <<"p", "o", "s", "t", "p", "o", "n", "e">>
W_Media == <<"M", "e", "d", "i", "a">>
W_Support == <<"S", "u", "p", "p", "o", "r", "t">>
W_ticket == <<"t", "i", "c", "k", "e", "t">>
W_TICKET == <<"T", "I", "C", "K", "E", "T">>
W_Customer == <<"C", "u", "s", "t", "o", "m", "e", "r">>
W_API == <<"A", "P", "I">>
W_capital == <<"c", "a", "p", "i", "t", "a", "l">>
W_Integration == <<"I", "n", "t", "e", "g", "r", "a", "t", "i", "o", "n">>
W_hello == <<"h", "e", "l", "l", "o">>
DocWords ==
    {W_Shopping, W_SHOPPING, W_Cart, W_CART, W_e_commerce,
     W_Social, W_postpone, W_Media, W_Support, W_ticket, W_TICKET,
     W_Customer, W_API, W_capital, W_Integration, W_hello}

\* a document of the given words, separated by single spaces
RECURSIVE JoinWords(_)
JoinWords(ws) ==
    IF ws = <<>> THEN <<>>
    ELSE IF Len(ws) = 1 THEN ws[1]
    ELSE ws[1] \o <<" ">> \o JoinWords(Tail(ws))

(***************************************************************************)
(* The fallback synthesizer: _create_smart_fallback_workflow               *)
(***************************************************************************)
EcommerceJourney ==
    <<
       WorkflowNode("start", "start", "User Opens App", 200, 100, <<"browse">>),
       WorkflowNode("browse", "process", "Browse Products", 500, 100, <<"select">>),
       WorkflowNode("select", "process", "Select Items", 800, 100, <<"cart">>),
       WorkflowNode("cart", "process", "Add to Cart", 1100, 100, <<"auth_check">>),
       WorkflowNode("auth_check", "decision", "User Logged In?", 1400, 100, <<"payment", "login">>),
       WorkflowNode("login", "process", "Login/Register", 1400, 300, <<"payment">>),
       WorkflowNode("payment", "process", "Process Payment", 1700, 100, <<"success_check">>),
       WorkflowNode("success_check", "decision", "Payment Success?", 2000, 100, <<"confirmation", "retry">>),
       WorkflowNode("retry", "process", "Retry Payment", 2000, 300, <<"payment">>),
       WorkflowNode("confirmation", "process", "Order Confirmation", 2300, 100, <<"end">>),
       WorkflowNode("end", "end", "Order Complete", 2600, 100, <<>>)
    >>

SocialJourney ==
    <<
       WorkflowNode("start", "start", "User Login", 200, 100, <<"dashboard">>),
       WorkflowNode("dashboard", "process", "View Dashboard", 500, 100, <<"create">>),
       WorkflowNode("create", "process", "Create Post", 800, 100, <<"content_check">>),
       WorkflowNode("content_check", "decision", "Content Valid?", 1100, 100, <<"schedule", "edit">>),
       WorkflowNode("edit", "process", "Edit Content", 1100, 300, <<"content_check">>),
       WorkflowNode("schedule", "decision", "Schedule or Publish?", 1400, 100, <<"publish", "schedule_time">>),
       WorkflowNode("schedule_time", "process", "Set Schedule Time", 1400, 50, <<"publish">>),
       WorkflowNode("publish", "process", "Publish Content", 1700, 100, <<"end">>),
       WorkflowNode("end", "end", "Post Published", 2000, 100, <<>>)
    >>

GenericJourney ==
    <<
       WorkflowNode("start", "start", "User Entry", 200, 100, <<"discover">>),
       WorkflowNode("discover", "process", "Discover Features", 500, 100, <<"valid_check">>),
       WorkflowNode("valid_check", "decision", "Valid Input?", 800, 100, <<"interact", "error">>),
       WorkflowNode("error", "process", "Show Error Message", 800, 300, <<"discover">>),
       WorkflowNode("interact", "process", "User Interaction", 1100, 100, <<"complete">>),
       WorkflowNode("complete", "process", "Complete Task", 1400, 100, <<"end">>),
       WorkflowNode("end", "end", "Task Complete", 1700, 100, <<>>)
    >>

SupportBlueprint ==
    <<
       WorkflowNode("start", "start", "Service Request", 200, 100, <<"validate">>),
       WorkflowNode("validate", "process", "Validate Request", 500, 100, <<"valid_check">>),
       WorkflowNode("valid_check", "decision", "Request Valid?", 800, 100, <<"route", "reject">>),
       WorkflowNode("reject", "process", "Reject Request", 800, 300, <<"notify_rejection">>),
       WorkflowNode("notify_rejection", "end", "Rejection Sent", 1100, 300, <<>>),
       WorkflowNode("route", "process", "Route to Team", 1100, 100, <<"priority">>),
       WorkflowNode("priority", "decision", "High Priority?", 1400, 100, <<"escalate", "resolve">>),
       WorkflowNode("escalate", "process", "Escalate to Manager", 1400, 50, <<"resolve">>),
       WorkflowNode("resolve", "process", "Resolve Issue", 1700, 100, <<"quality_check">>),
       WorkflowNode("quality_check", "decision", "Quality Approved?", 2000, 100, <<"notify", "rework">>),
       WorkflowNode("rework", "process", "Rework Solution", 2000, 300, <<"resolve">>),
       WorkflowNode("notify", "process", "Notify Customer", 2300, 100, <<"end">>),
       WorkflowNode("end", "end", "Service Complete", 2600, 100, <<>>)
    >>

GenericBlueprint ==
    <<
       WorkflowNode("start", "start", "Service Trigger", 200, 100, <<"validate">>),
       WorkflowNode("validate", "process", "Input Validation", 500, 100, <<"valid_check">>),
       WorkflowNode("valid_check", "decision", "Input Valid?", 800, 100, <<"process", "error">>),
       WorkflowNode("error", "end", "Error Response", 800, 300, <<>>),
       WorkflowNode("process", "process", "Core Processing", 1100, 100, <<"quality">>),
       WorkflowNode("quality", "decision", "Quality Check Pass?", 1400, 100, <<"deliver", "retry">>),
       WorkflowNode("retry", "process", "Retry Processing", 1400, 300, <<"process">>),
       WorkflowNode("deliver", "process", "Service Delivery", 1700, 100, <<"end">>),
       WorkflowNode("end", "end", "Service Complete", 2000, 100, <<>>)
    >>

ApiFlow ==
    <<
       WorkflowNode("start", "start", "API Request", 200, 100, <<"auth">>),
       WorkflowNode("auth", "process", "Authentication", 500, 100, <<"auth_check">>),
       WorkflowNode("auth_check", "decision", "Auth Valid?", 800, 100, <<"validate", "unauthorized">>),
       WorkflowNode("unauthorized", "end", "Unauthorized", 800, 300, <<>>),
       WorkflowNode("validate", "process", "Input Validation", 1100, 100, <<"valid_check">>),
       WorkflowNode("valid_check", "decision", "Valid Input?", 1400, 100, <<"process", "bad_request">>),
       WorkflowNode("bad_request", "end", "Bad Request", 1400, 300, <<>>),
       WorkflowNode("process", "process", "Business Logic", 1700, 100, <<"integrate">>),
       WorkflowNode("integrate", "process", "External Integration", 2000, 100, <<"success_check">>),
       WorkflowNode("success_check", "decision", "Integration Success?", 2300, 100, <<"response", "error_response">>),
       WorkflowNode("error_response", "end", "Error Response", 2300, 300, <<>>),
       WorkflowNode("response", "end", "Success Response", 2600, 100, <<>>)
    >>

GenericFlow ==
    <<
       WorkflowNode("start", "start", "Feature Trigger", 200, 100, <<"input">>),
       WorkflowNode("input", "process", "Input Processing", 500, 100, <<"validation">>),
       WorkflowNode("validation", "decision", "Input Valid?", 800, 100, <<"logic", "error">>),
       WorkflowNode("error", "end", "Validation Error", 800, 300, <<>>),
       WorkflowNode("logic", "process", "Core Logic", 1100, 100, <<"decide">>),
       WorkflowNode("decide", "decision", "Business Rules Met?", 1400, 100, <<"output", "alternative">>),
       WorkflowNode("alternative", "process", "Alternative Path", 1400, 300, <<"output">>),
       WorkflowNode("output", "process", "Generate Output", 1700, 100, <<"end">>),
       WorkflowNode("end", "end", "Feature Complete", 2000, 100, <<>>)
    >>

DefaultWorkflow ==
    <<
       WorkflowNode("start", "start", "Start", 200, 100, <<"process1">>),
       WorkflowNode("process1", "process", "Initial Process", 500, 100, <<"decision1">>),
       WorkflowNode("decision1", "decision", "Continue?", 800, 100, <<"process2", "end_early">>),
       WorkflowNode("end_early", "end", "Early Exit", 800, 300, <<>>),
       WorkflowNode("process2", "process", "Final Process", 1100, 100, <<"end">>),
       WorkflowNode("end", "end", "Complete", 1400, 100, <<>>)
    >>

\* variant: the keywords are looked for in the text as it is written
_create_smart_fallback_workflow_CaseSensitive(content, workflow_type) ==
    LET has(kw) == Contains(content, kw)
    IN CASE workflow_type = "user_journey" ->
              IF has(Kw_e_commerce) \/ has(Kw_shopping) \/ has(Kw_cart) THEN EcommerceJourney
              ELSE IF has(Kw_social) \/ has(Kw_post) \/ has(Kw_media) THEN SocialJourney
              ELSE GenericJourney
         [] workflow_type = "service_blueprint" ->
              IF has(Kw_support) \/ has(Kw_ticket) \/ has(Kw_customer) THEN SupportBlueprint
              ELSE GenericBlueprint
         [] workflow_type = "feature_flow" ->
              IF has(Kw_api) \/ has(Kw_integration) THEN ApiFlow
              ELSE GenericFlow
         [] OTHER -> DefaultWorkflow
\* variant: a three-node stub for every document and workflow type
_create_smart_fallback_workflow_Stub(content, workflow_type) ==
    <<DefaultWorkflow[1], DefaultWorkflow[2], DefaultWorkflow[6]>>
\* variant: the graphs lose their end nodes
_create_smart_fallback_workflow_NoEnd(content, workflow_type) ==
    SelectSeq(DefaultWorkflow, LAMBDA node : node.type # "end")

\* variant: the default graph with one exit per decision node
_create_smart_fallback_workflow_OneExit(content, workflow_type) ==
    [i \in 1..Len(DefaultWorkflow) |->
        IF DefaultWorkflow[i].type = "decision"
        THEN [DefaultWorkflow[i] EXCEPT !.connections = SubSeq(@, 1, 1)]
        ELSE DefaultWorkflow[i]]

\* variant: the social bucket is tested before the commerce bucket
_create_smart_fallback_workflow_SocialFirst(content, workflow_type) ==
    LET content_lower == Lower(content)
        has(kw) == Contains(content_lower, kw)
    IN CASE workflow_type = "user_journey" ->
              IF has(Kw_social) \/ has(Kw_post) \/ has(Kw_media) THEN SocialJourney
              ELSE IF has(Kw_e_commerce) \/ has(Kw_shopping) \/ has(Kw_cart) THEN EcommerceJourney
              ELSE GenericJourney
         [] workflow_type = "service_blueprint" ->
              IF has(Kw_support) \/ has(Kw_ticket) \/ has(Kw_customer) THEN SupportBlueprint
              ELSE GenericBlueprint
         [] workflow_type = "feature_flow" ->
              IF has(Kw_api) \/ has(Kw_integration) THEN ApiFlow
              ELSE GenericFlow
         [] OTHER -> DefaultWorkflow

_create_smart_fallback_workflow(content, workflow_type) ==
    LET content_lower == Lower(content)
        has(kw) == Contains(content_lower, kw)
    IN CASE workflow_type = "user_journey" ->
              IF has(Kw_e_commerce) \/ has(Kw_shopping) \/ has(Kw_cart) THEN EcommerceJourney
              ELSE IF has(Kw_social) \/ has(Kw_post) \/ has(Kw_media) THEN SocialJourney
              ELSE GenericJourney
         [] workflow_type = "service_blueprint" ->
              IF has(Kw_support) \/ has(Kw_ticket) \/ has(Kw_customer) THEN SupportBlueprint
              ELSE GenericBlueprint
         [] workflow_type = "feature_flow" ->
              IF has(Kw_api) \/ has(Kw_integration) THEN ApiFlow
              ELSE GenericFlow
         [] OTHER -> DefaultWorkflow

(***************************************************************************)
(* Upstream outcomes of one attempt                                        *)
(***************************************************************************)
\* the response of session.post: a status with a body
Response(status, body) == [k |-> "status", status |-> status, body |-> body]
\* what the request raises instead of answering
TimeoutError == [k |-> "timeout"]            \* asyncio.TimeoutError
ClientError == [k |-> "client_error"]        \* aiohttp.ClientError
OtherError == [k |-> "exception"]            \* any other exception

\* bodies of a 200 answer
NotJsonBody == [b |-> "not_json"]            \* json.loads(response_text) fails
NoCandidates == [b |-> "no_candidates"]      \* no 'candidates' key, or an empty list
BadCandidate == [b |-> "bad_candidate"]      \* candidates[0] without content/parts/text
TextBody(text) == [b |-> "text", text |-> text]
\* bodies of an error answer
ErrorEnvelope == [b |-> "error_json"]        \* {"error": {"message": ...}}
PlainBody == [b |-> "plain"]                 \* not JSON

(***************************************************************************)
(* Exceptions and results of the service methods                           *)
(***************************************************************************)
NoCause == [exc |-> "none"]
HTTPException(status, detail) == [exc |-> "HTTPException", status |-> status, detail |-> detail]
Raised(name) == [exc |-> name]
\* an HTTPException that leaves the method, with the exception it wraps
Error(status, detail, cause) == [status |-> status, detail |-> detail, cause |-> cause]
NoError == [status |-> 0]
NoResult == [kind |-> "none"]
\* via: the return statement taken
Nodes(nodes, via) == [kind |-> "nodes", nodes |-> nodes, via |-> via]
Analysis(v, via) == [kind |-> "analysis", v |-> v, via |-> via]

\* what one attempt does with its outcome
Return(result) == [do |-> "return", result |-> result]
Raise(error) == [do |-> "raise", error |-> error]
Retry(delay) == [do |-> "retry", delay |-> delay]
\* an exception raised inside the try block, on its way to the handlers
Throw(exc) == [do |-> "throw", exc |-> exc]
\* variant: one attempt more than the code allows
max_retries_Four == 3 + 1
max_retries == 3
base_delay == 2

(***************************************************************************)
(* generate_workflow: one attempt                                          *)
(***************************************************************************)
\* The inner try block from the parsed value on: unwrap, build the nodes,
\* return them when there are more than two, else the fallback.
NormalizeStrict(workflow_data, document_content, workflow_type) ==
    LET built == BuildNodes(Unwrap(workflow_data), 200, 300)
    IN IF built.raised THEN Throw(Raised("TypeError or ValidationError"))
       ELSE IF Len(built.nodes) > 2 THEN Return(Nodes(built.nodes, "strict"))
       ELSE Return(Nodes(_create_smart_fallback_workflow(document_content, workflow_type),
                         "fallback"))
\* variant: the handler accepts a graph of two nodes
NormalizeExtracted_TwoNodes(content, document_content, workflow_type) ==
    LET json_match == RegexLoads(content, "arr")
        built == BuildNodes(json_match.v, 100, 150)
    IN IF json_match.match /\ json_match.ok /\ built.raised
       THEN Throw(Raised("TypeError or ValidationError"))
       ELSE IF json_match.match /\ json_match.ok /\ Len(built.nodes) > 1
       THEN Return(Nodes(built.nodes, "extract"))
       ELSE Return(Nodes(_create_smart_fallback_workflow(document_content, workflow_type),
                         "fallback"))
\* variant: the handler falls back to the kind-agnostic default graph
NormalizeExtracted_Default(content, document_content, workflow_type) ==
    LET json_match == RegexLoads(content, "arr")
        built == BuildNodes(json_match.v, 100, 150)
    IN IF json_match.match /\ json_match.ok /\ built.raised
       THEN Throw(Raised("TypeError or ValidationError"))
       ELSE IF json_match.match /\ json_match.ok /\ Len(built.nodes) > 2
       THEN Return(Nodes(built.nodes, "extract"))
       ELSE Return(Nodes(DefaultWorkflow, "fallback"))

\* The `except json.JSONDecodeError` handler: parse the bracketed stretch
\* of the text, build the nodes, return them when there are more than two;
\* in every other case that raises nothing, the fallback.
NormalizeExtracted(content, document_content, workflow_type) ==
    LET json_match == RegexLoads(content, "arr")
        built == BuildNodes(json_match.v, 100, 150)
    IN IF json_match.match /\ json_match.ok /\ built.raised
       THEN Throw(Raised("TypeError or ValidationError"))
       ELSE IF json_match.match /\ json_match.ok /\ Len(built.nodes) > 2
       THEN Return(Nodes(built.nodes, "extract"))
       ELSE Return(Nodes(_create_smart_fallback_workflow(document_content, workflow_type),
                         "fallback"))

\* What generate_workflow does with the candidate text `content` of a 200
\* answer.
NormalizeOrFallback(content, document_content, workflow_type) ==
    LET strict == JsonLoads(StripFence(content))
    IN IF strict.ok
       THEN NormalizeStrict(strict.v, document_content, workflow_type)
       ELSE NormalizeExtracted(content, document_content, workflow_type)

\* the body of the try block once the outcome of session.post is known
GenerateTry(outcome, attempt, document_content, workflow_type) ==
    CASE outcome.k # "status" -> Throw(Raised(outcome.k))
      [] outcome.k = "status" /\ outcome.status = 200 ->
           (CASE outcome.body.b = "not_json" -> Throw(Raised("JSONDecodeError"))
             [] outcome.body.b = "no_candidates" -> Throw(HTTPException(500, "No workflow generated"))
             [] outcome.body.b = "bad_candidate" -> Throw(Raised("KeyError"))
             [] outcome.body.b = "text" ->
                  NormalizeOrFallback(outcome.body.text, document_content, workflow_type))
      [] outcome.k = "status" /\ outcome.status = 503 ->
           IF attempt < max_retries - 1 THEN Retry(base_delay * (2 ^ attempt))
           ELSE Throw(HTTPException(503, "AI service temporarily overloaded"))
      [] OTHER -> Throw(HTTPException(outcome.status, "Workflow generation failed"))
\* variant: the handler sleeps and goes on after the last attempt too
GenerateExcept_RetriesLast(exc, attempt) ==
    Retry(base_delay * (2 ^ attempt))

\* variant: after the last attempt the handler returns a fallback graph
GenerateExcept_FallsBack(exc, attempt) ==
    IF attempt < max_retries - 1 THEN Retry(base_delay * (2 ^ attempt))
    ELSE Return(Nodes(DefaultWorkflow, "fallback"))

\* `except Exception as e` of generate_workflow
GenerateExcept(exc, attempt) ==
    IF attempt < max_retries - 1 THEN Retry(base_delay * (2 ^ attempt))
    ELSE Raise(Error(500, "Workflow generation failed", exc))

GenerateAttempt(outcome, attempt, document_content, workflow_type) ==
    LET tried == GenerateTry(outcome, attempt, document_content, workflow_type)
    IN IF tried.do = "throw" THEN GenerateExcept(tried.exc, attempt) ELSE tried

(***************************************************************************)
(* analyze_document: one attempt                                           *)
(***************************************************************************)
\* variant: no extraction of the braced stretch, the raw wrapper at once
ParseAnalysis_RawOnly(content) ==
    LET strict == JsonLoads(StripFence(content))
    IN IF strict.ok THEN Analysis(strict.v, "strict")
       ELSE Analysis(JObj([raw_analysis |-> JStr(content)]), "raw")

\* the inner try block and its JSONDecodeError handler
ParseAnalysis(content) ==
    LET strict == JsonLoads(StripFence(content))
        json_match == RegexLoads(content, "obj")
    IN IF strict.ok THEN Analysis(strict.v, "strict")
       ELSE IF json_match.match /\ json_match.ok THEN Analysis(json_match.v, "extract")
       ELSE Analysis(JObj([raw_analysis |-> JStr(content)]), "raw")

AnalyzeTry(outcome, attempt) ==
    CASE outcome.k # "status" -> Throw(Raised(outcome.k))
      [] outcome.k = "status" /\ outcome.status = 200 ->
           (CASE outcome.body.b = "not_json" -> Throw(Raised("JSONDecodeError"))
             [] outcome.body.b = "no_candidates" -> Throw(HTTPException(500, "No content generated by Gemini"))
             [] outcome.body.b = "bad_candidate" -> Throw(Raised("KeyError"))
             [] outcome.body.b = "text" -> Return(ParseAnalysis(outcome.body.text)))
      [] outcome.k = "status" /\ outcome.status = 503 ->
           IF attempt < max_retries - 1 THEN Retry(base_delay * (2 ^ attempt))
           ELSE Throw(HTTPException(503, "Gemini AI service is currently overloaded"))
      [] outcome.k = "status" /\ outcome.status = 429 ->
           IF attempt < max_retries - 1 THEN Retry(base_delay * (3 ^ attempt))
           ELSE Throw(HTTPException(429, "Rate limit exceeded"))
      [] OTHER -> Throw(HTTPException(outcome.status, "Gemini API error"))

\* variant: the last clause sleeps and retries as the first two do
AnalyzeExcept_Retries(exc, attempt) ==
    CASE exc.exc = "timeout" ->
           IF attempt < max_retries - 1 THEN Retry(base_delay * (2 ^ attempt))
           ELSE Raise(Error(504, "Request timeout", NoCause))
      [] exc.exc = "client_error" ->
           IF attempt < max_retries - 1 THEN Retry(base_delay * (2 ^ attempt))
           ELSE Raise(Error(503, "Unable to connect to AI service", NoCause))
      [] OTHER ->
           IF attempt < max_retries - 1 THEN Retry(base_delay * (2 ^ attempt))
           ELSE Raise(Error(500, "An unexpected error occurred during analysis", exc))

\* the three except clauses of analyze_document, in their order
AnalyzeExcept(exc, attempt) ==
    CASE exc.exc = "timeout" ->
           IF attempt < max_retries - 1 THEN Retry(base_delay * (2 ^ attempt))
           ELSE Raise(Error(504, "Request timeout", NoCause))
      [] exc.exc = "client_error" ->
           IF attempt < max_retries - 1 THEN Retry(base_delay * (2 ^ attempt))
           ELSE Raise(Error(503, "Unable to connect to AI service", NoCause))
      [] OTHER -> Raise(Error(500, "An unexpected error occurred during analysis", exc))

AnalyzeAttempt(outcome, attempt) ==
    LET tried == AnalyzeTry(outcome, attempt)
    IN IF tried.do = "throw" THEN AnalyzeExcept(tried.exc, attempt) ELSE tried

(***************************************************************************)
(* Inputs                                                                  *)
(***************************************************************************)
MaxItems == 3       \* longest JSON array an upstream text carries
MaxDocWords == 2    \* longest document, in words
MaxCalls == 2       \* calls made one after the other on the service object
MaxBuildItems == 4  \* longest array of mixed elements the normalizer is applied to

\* node objects as the prompt asks for them: all six fields, connections
\* given as objects with a target and a label or as bare ids
NodeA == JObj([id |-> JStr("a"), type |-> JStr("start"), label |-> JStr("Open"),
               x |-> JNum(200), y |-> JNum(100),
               connections |-> JArr(<<JObj([target |-> JStr("b"), label |-> JStr("Continue")])>>)])
NodeB == JObj([id |-> JStr("b"), type |-> JStr("decision"), label |-> JStr("Valid?"),
               x |-> JNum(500), y |-> JNum(300),
               connections |-> JArr(<<JStr("c"), JObj([target |-> JStr("a"), label |-> JStr("No")])>>)])
NodeC == JObj([id |-> JStr("c"), type |-> JStr("end"), label |-> JStr("Done"),
               x |-> JNum(800), y |-> JNum(50), connections |-> JArr(<<>>)])
\* node objects that leave fields out or fill them loosely
NodeEmpty == JObj(<<>>)
NodeLoose == JObj([id |-> JStr("d"), type |-> JStr("subprocess"), y |-> JNum(300),
                   connections |-> JArr(<<JObj([label |-> JStr("Yes")]),
                                          JObj([target |-> JStr("")]),
                                          JObj([target |-> JNull]),
                                          JNum(7), JStr("a")>>)])
\* node objects with coordinates written as strings, with connections that
\* are no list
NodeStringX == JObj([id |-> JStr("s"), x |-> JStr("5"), y |-> JStr(" 5 ")])
NodeStringConns == JObj([id |-> JStr("z"), connections |-> JStr("ab")])
NodeObjectConns ==
    JObj([id |-> JStr("y"), connections |-> JObj([target |-> JStr("b"), label |-> JStr("No")])])
\* node objects the conversion raises on
NodeWordX == JObj([id |-> JStr("w"), x |-> JStr("junk")])
NodeNumberConns == JObj([id |-> JStr("n"), connections |-> JNum(7)])
NodeNullId == JObj([id |-> JNull, type |-> JStr("process"), label |-> JStr("E")])
NodeNullConns == JObj([id |-> JStr("f"), connections |-> JNull])

WellFormedNodes == {NodeA, NodeB, NodeC}
NodeObjects == WellFormedNodes \cup {NodeEmpty, NodeLoose, NodeNullId}
ArrayItems == NodeObjects \cup {JStr("junk")}

\* the sequences over S of length at most n
SeqsUpTo(S, n) == UNION {[1..k -> S] : k \in 0..n}

\* the values an array of the given items can come in: bare, or under a key
Wrappings(arr) ==
    {arr, JObj([workflow |-> arr]), JObj([nodes |-> arr]), JObj([data |-> arr]),
     JObj([workflow |-> arr, nodes |-> JArr(<<>>)]),
     JObj([workflow |-> JArr(<<>>), nodes |-> arr])}

SummaryObject == JObj([executive_summary |-> JStr("Brief"), key_features |-> JArr(<<JStr("f1")>>)])
OtherValues ==
    {JNull, JNum(5), JStr("plain"), SummaryObject, JObj([workflow |-> JNum(5)]),
     JObj([raw |-> JObj([summary |-> JStr("s")])]), JArr(<<SummaryObject>>),
     JArr(<<SummaryObject, NodeA>>), JArr(<<NodeNullConns, NodeA, NodeB>>),
     JArr(<<NodeA, NodeB, NodeC, NodeNullConns>>)}

\* the texts that carry value v
TextsOf(v) ==
    {<<Json(v)>>,
     <<FenceJson, Json(v), FencePlain>>,
     <<FencePlain, Json(v), FencePlain>>,
     <<FencePlain, Json(v), FenceJson>>,
     <<Prose("words"), Json(v)>>,
     <<Json(v), Prose("words")>>,
     <<Prose("words"), FenceJson, Json(v), FencePlain>>,
     <<FenceJson, Json(v), FencePlain, Prose("words")>>,
     <<Prose("[note]"), Json(v)>>,
     <<Json(v), Prose("{note}")>>,
     <<Json(v), Json(v)>>}
\* texts without any JSON value
GarbageTexts ==
    {<<>>, <<Prose("words")>>, <<Prose("[note]")>>, <<Prose("{note}")>>,
     <<FenceJson, Prose("words"), FencePlain>>, <<FenceJson>>}

ValuesUpTo(n) ==
    (UNION {Wrappings(JArr(items)) : items \in SeqsUpTo(ArrayItems, n)}) \cup OtherValues
TextsUpTo(n) == (UNION {TextsOf(v) : v \in ValuesUpTo(n)}) \cup GarbageTexts

\* the documents: up to MaxDocWords words
DocsUpTo(n) == {JoinWords(ws) : ws \in SeqsUpTo(DocWords, n)}
\* the same words in another letter case
Variants(w) == {w2 \in DocWords : Lower(w2) = Lower(w)}
RECURSIVE Recasings(_)
Recasings(ws) ==
    IF ws = <<>> THEN {<<>>}
    ELSE {<<w>> \o rest : w \in Variants(Head(ws)), rest \in Recasings(Tail(ws))}
\* pairs of documents that differ in letter case at most
DocPairsUpTo(n) ==
    UNION {{<<JoinWords(ws), JoinWords(ws2)>> : ws2 \in Recasings(ws)} :
              ws \in SeqsUpTo(DocWords, n)}
WorkflowTypes == {"user_journey", "service_blueprint", "feature_flow", "data_flow"}
AnalysisTypes == {"gap_analysis", "summary"}

\* the inputs of the calls the state machine follows
CallTexts ==
    {<<Json(JArr(<<NodeA, NodeB, NodeC>>))>>,
     <<FenceJson, Json(JObj([workflow |-> JArr(<<NodeA, NodeEmpty, NodeC>>)])), FencePlain>>,
     <<Prose("words"), Json(JArr(<<NodeA, NodeB, NodeLoose>>))>>,
     <<Json(JArr(<<NodeA, NodeB>>))>>,
     <<Prose("words"), Json(JArr(<<NodeC>>))>>,
     <<Prose("words")>>,
     <<Prose("[note]"), Json(JArr(<<NodeA, NodeB, NodeC>>))>>,
     <<Json(JNum(5))>>,
     <<Json(JArr(<<NodeA, NodeNullId, NodeC>>))>>,
     <<Prose("words"), Json(JArr(<<NodeNullConns, NodeA, NodeB>>))>>,
     <<Json(SummaryObject)>>,
     <<Prose("words"), Json(SummaryObject)>>,
     <<Json(JArr(<<SummaryObject>>))>>}
CallDocs == {<<>>, W_hello, W_CART, JoinWords(<<W_e_commerce, W_Media>>)}
Bodies200 == {NotJsonBody, NoCandidates, BadCandidate} \cup {TextBody(t) : t \in CallTexts}
OtherStatuses == {429, 400, 403}
Outcomes ==
    {Response(200, b) : b \in Bodies200}
    \cup {Response(503, ErrorEnvelope)}
    \cup {Response(st, ErrorEnvelope) : st \in OtherStatuses}
    \cup {Response(400, PlainBody)}
    \cup {TimeoutError, ClientError, OtherError}

(***************************************************************************)
(* Credentials and the current user                                        *)
(***************************************************************************)
\* HTTPBearer(auto_error=False): no Authorization header gives None
NoCredentials == [scheme |-> "none"]
Bearer(token) == [scheme |-> "Bearer", token |-> token]
\* tokens: the signature checks or not, the expiry has passed or not, the
\* payload names a user or not
ValidToken == [signed |-> TRUE, expired |-> FALSE, user_id |-> "u1"]
ExpiredToken == [signed |-> TRUE, expired |-> TRUE, user_id |-> "u1"]
ForgedToken == [signed |-> FALSE, expired |-> FALSE, user_id |-> "u1"]
NamelessToken == [signed |-> TRUE, expired |-> FALSE, user_id |-> ""]
Credentials ==
    {NoCredentials, Bearer(ValidToken), Bearer(ExpiredToken), Bearer(ForgedToken),
     Bearer(NamelessToken)}
None == [id |-> "None"]

\* AuthService.verify_token: jwt.decode raises InvalidSignatureError on a
\* forged token, which `except jwt.ExpiredSignatureError` lets pass; the
\* next clause names jwt.JWTError, which PyJWT does not have, so that
\* evaluating it raises AttributeError and line 233 is never reached.
verify_token(token) ==
    IF ~token.signed
    THEN [raised |-> TRUE,
          error |-> [exc |-> "AttributeError",
                     detail |-> "module 'jwt' has no attribute 'JWTError'"]]
    ELSE IF token.expired
    THEN [raised |-> TRUE,
          error |-> [exc |-> "HTTPException", status |-> 401, detail |-> "Token has expired"]]
    ELSE [raised |-> FALSE, payload |-> [user_id |-> token.user_id]]

\* str(status_code) for the statuses the code raises
StatusText(status) ==
    CASE status = 400 -> "400" [] status = 401 -> "401" [] status = 429 -> "429"
      [] status = 500 -> "500" [] status = 503 -> "503" [] status = 504 -> "504"
\* str(e): "<status_code>: <detail>" for an HTTPException
\* (starlette.exceptions.HTTPException.__str__), the message for any other
\* exception
StrOfException(e) ==
    IF e.exc = "HTTPException" THEN StatusText(e.status) \o ": " \o e.detail
    ELSE e.detail

\* get_current_user: every path of its try block raises, the last one the
\* 503 of the disabled user lookup, and `except Exception as e` turns each
\* into a 401 with detail=str(e)
get_current_user(creds) ==
    LET caught ==
            IF creds = NoCredentials
            THEN [exc |-> "AttributeError",
                  detail |-> "'NoneType' object has no attribute 'credentials'"]
            ELSE LET verified == verify_token(creds.token)
                 IN IF verified.raised THEN verified.error
                    ELSE IF verified.payload.user_id = ""
                    THEN HTTPException(401, "Invalid token")
                    ELSE HTTPException(503, "Database is disabled. User lookup unavailable.")
    IN [raised |-> TRUE, error |-> [status |-> 401, detail |-> StrOfException(caught)]]

\* get_current_user_optional: None without credentials, and None again when
\* get_current_user raises
get_current_user_optional(creds) ==
    IF creds = NoCredentials THEN None
    ELSE LET found == get_current_user(creds)
         IN IF found.raised THEN None ELSE found.user

\* `current_user.id if current_user else None`
UserIdOf(current_user) == IF current_user = None THEN None.id ELSE current_user.id

(***************************************************************************)
(* The GET routes of stored results                                        *)
(***************************************************************************)
GetRoutes ==
    {"GET /analyses", "GET /analyses/{analysis_id}", "GET /workflows",
     "GET /workflows/{workflow_id}"}
PathIds == {"1", "42", "abc", "0f8fad5b", "missing", "a b"}

\* get_analyses, get_workflows: the 503 of the disabled store is raised
\* inside the try block and `except Exception` answers 500
get_analyses(current_user) ==
    Error(500, "Failed to fetch analyses",
          HTTPException(503, "Database is disabled. Document analyses unavailable."))
get_workflows(current_user) ==
    Error(500, "Failed to fetch workflows",
          HTTPException(503, "Database is disabled. Workflow list unavailable."))
\* get_analysis, get_workflow: the handler raises an HTTPException again
get_analysis(analysis_id, current_user) ==
    Error(503, "Database is disabled. Document analysis unavailable.", NoCause)
get_workflow(workflow_id, current_user) ==
    Error(503, "Database is disabled. Workflow lookup unavailable.", NoCause)

(***************************************************************************)
(* State                                                                   *)
(***************************************************************************)
VARIABLES
    route,              \* "service": the method is called directly; else the HTTP route
    fn,                 \* the service method: "analyze_document" or "generate_workflow"
    document_content,   \* argument: the document text
    kind,               \* argument: workflow_type, or analysis_type
    calls,              \* number of calls of the method so far, this one included
    earlier,            \* how the call before this one ended, and with which status
    file,               \* the uploaded file of POST /analyze-document-file
    credentials,        \* the Authorization header of the request
    path_id,            \* the id in the path of GET /analyses/{id}, /workflows/{id}
    peer,               \* the other call in flight on the service object, suspended
    pc,                 \* "call": at the head of the retry loop; "await": request sent;
                        \* "sleep": in asyncio.sleep; "returned", "raised": method left;
                        \* "responded": the route has answered
    attempt,            \* the loop variable
    requests,           \* number of session.post calls made
    timeouts,           \* timeout_duration of each request
    sleeps,             \* delay of each asyncio.sleep
    outcomes,           \* what each attempt got, in order (status and kind of body)
    last,               \* the outcome of the latest attempt, in full
    result,             \* the value the method returned
    error,              \* the HTTPException the method raised
    http,               \* the answer of the route
    arg,                \* argument of a function applied on its own
    out                 \* its value

callVars == <<route, fn, document_content, kind, calls, earlier, file, credentials, path_id,
              peer>>
loopVars == <<pc, attempt, requests, timeouts, sleeps, outcomes, last, result, error>>
funVars == <<arg, out>>
vars == <<route, fn, document_content, kind, calls, earlier, file, credentials, path_id, peer,
          pc, attempt, requests, timeouts, sleeps,
          outcomes, last, result, error, http, arg, out>>

NoOutcome == [k |-> "none"]
NoHttp == [status |-> 0]
NoArg == [f |-> "none"]
NoEarlier == [how |-> "none", status |-> 0]
NoFile == [filename |-> <<>>, content |-> "none"]
NoOut == [do |-> "none"]
NoPeer == [id |-> 0]

Tag(outcome) ==
    IF outcome.k = "status"
    THEN [k |-> "status", status |-> outcome.status, body |-> outcome.body.b]
    ELSE outcome

\* the state of a call that has not made its first attempt
LoopStart ==
    /\ pc = "call" /\ attempt = 0 /\ requests = 0
    /\ timeouts = <<>> /\ sleeps = <<>> /\ outcomes = <<>>
    /\ last = NoOutcome /\ result = NoResult /\ error = NoError /\ http = NoHttp

Init ==
    /\ \/ /\ fn = "generate_workflow"
          /\ route \in {"service", "POST /generate-workflow"}
          /\ document_content \in CallDocs
          /\ kind \in WorkflowTypes
       \/ /\ fn = "analyze_document"
          /\ route \in {"service", "POST /analyze-document"}
          /\ document_content = W_hello
          /\ kind \in AnalysisTypes
    /\ calls = 1 /\ earlier = NoEarlier /\ file = NoFile
    /\ credentials = NoCredentials /\ path_id = "" /\ peer = NoPeer
    /\ LoopStart
    /\ arg = NoArg /\ out = NoOut

(***************************************************************************)
(* The retry loop of the two methods                                       *)
(***************************************************************************)
\* variant: the same timeout for every attempt
SendRequest_FlatTimeout ==
    /\ pc = "call"
    /\ attempt < max_retries
    /\ pc' = "await"
    /\ requests' = requests + 1
    /\ timeouts' = Append(timeouts, 30)
    /\ UNCHANGED <<callVars, attempt, sleeps, outcomes, last, result, error, http, funVars>>

\* `async with session.post(..., timeout=ClientTimeout(total=timeout_duration))`
SendRequest ==
    /\ pc = "call"
    /\ attempt < max_retries
    /\ pc' = "await"
    /\ requests' = requests + 1
    /\ timeouts' = Append(timeouts, 30 + (attempt * 15))
    /\ UNCHANGED <<callVars, attempt, sleeps, outcomes, last, result, error, http, funVars>>

\* the attempt ends: the method returns, raises, or goes to sleep before
\* the next attempt
Finish(outcome, step) ==
    /\ outcomes' = Append(outcomes, Tag(outcome))
    /\ last' = outcome
    /\ CASE step.do = "return" ->
              /\ pc' = "returned" /\ result' = step.result
              /\ UNCHANGED <<error, sleeps>>
         [] step.do = "raise" ->
              /\ pc' = "raised" /\ error' = step.error
              /\ UNCHANGED <<result, sleeps>>
         [] step.do = "retry" ->
              /\ pc' = "sleep" /\ sleeps' = Append(sleeps, step.delay)
              /\ UNCHANGED <<result, error>>
    /\ UNCHANGED <<callVars, attempt, requests, timeouts, http, funVars>>

GenerateReceive(outcome) ==
    /\ pc = "await" /\ fn = "generate_workflow"
    /\ Finish(outcome, GenerateAttempt(outcome, attempt, document_content, kind))

AnalyzeReceive(outcome) ==
    /\ pc = "await" /\ fn = "analyze_document"
    /\ Finish(outcome, AnalyzeAttempt(outcome, attempt))

GenerateOn200 == \E b \in Bodies200 : GenerateReceive(Response(200, b))
GenerateOn503 == GenerateReceive(Response(503, ErrorEnvelope))
GenerateOnOtherStatus ==
    \E o \in Outcomes : o.k = "status" /\ o.status \notin {200, 503} /\ GenerateReceive(o)
GenerateOnException ==
    \E o \in Outcomes : o.k # "status" /\ GenerateReceive(o)

AnalyzeOn200 == \E b \in Bodies200 : AnalyzeReceive(Response(200, b))
AnalyzeOn503 == AnalyzeReceive(Response(503, ErrorEnvelope))
AnalyzeOn429 == AnalyzeReceive(Response(429, ErrorEnvelope))
AnalyzeOnOtherStatus ==
    \E o \in Outcomes : o.k = "status" /\ o.status \notin {200, 503, 429} /\ AnalyzeReceive(o)
AnalyzeOnTimeout == AnalyzeReceive(TimeoutError)
AnalyzeOnClientError == AnalyzeReceive(ClientError)
AnalyzeOnException == AnalyzeReceive(OtherError)

\* asyncio.sleep(delay) is over; `continue`
Continue ==
    /\ pc = "sleep"
    /\ pc' = "call"
    /\ attempt' = attempt + 1
    /\ UNCHANGED <<callVars, requests, timeouts, sleeps, outcomes, last, result, error, http, funVars>>

(***************************************************************************)
(* The routes                                                              *)
(***************************************************************************)
\* POST /generate-workflow, after gemini_service.generate_workflow has left:
\* the record is built, then the disabled save raises 503 inside the try
\* block, and `except Exception` turns every exception into a 500.
PostGenerateWorkflow ==
    /\ route = "POST /generate-workflow"
    /\ pc \in {"returned", "raised"}
    /\ pc' = "responded"
    /\ http' = IF pc = "returned"
               THEN Error(500, "Workflow generation failed",
                          HTTPException(503, "Database is disabled. Workflow save unavailable."))
               ELSE Error(500, "Workflow generation failed", error)
    /\ UNCHANGED <<callVars, attempt, requests, timeouts, sleeps, outcomes, last, result, error, funVars>>

\* POST /analyze-document: a returned mapping is wrapped into the response
\* (analysis_result: Dict[str, Any] rejects anything else); `except
\* Exception` turns every exception into a 500.
PostAnalyzeDocument ==
    /\ route = "POST /analyze-document"
    /\ pc \in {"returned", "raised"}
    /\ pc' = "responded"
    /\ http' = IF pc = "returned" /\ result.v.t = "obj"
               THEN [status |-> 200, analysis_result |-> result.v, analysis_type |-> kind,
                     document_length |-> Len(document_content),
                     user_id |-> UserIdOf(get_current_user_optional(credentials))]
               ELSE IF pc = "returned"
               THEN Error(500, "Analysis failed", Raised("ValidationError"))
               ELSE Error(500, "Analysis failed", error)
    /\ UNCHANGED <<callVars, attempt, requests, timeouts, sleeps, outcomes, last, result, error, funVars>>

Next ==
    \/ SendRequest
    \/ GenerateOn200 \/ GenerateOn503 \/ GenerateOnOtherStatus \/ GenerateOnException
    \/ AnalyzeOn200 \/ AnalyzeOn503 \/ AnalyzeOn429 \/ AnalyzeOnOtherStatus
    \/ AnalyzeOnTimeout \/ AnalyzeOnClientError \/ AnalyzeOnException
    \/ Continue
    \/ PostGenerateWorkflow \/ PostAnalyzeDocument

Spec == Init /\ [][Next]_vars

\* Every request carries a total timeout and every sleep is finite: the
\* attempt under way gets its outcome, the sleep ends, the route answers.
SpecLive == Init /\ [][Next]_vars /\ WF_vars(Next)

(***************************************************************************)
(* Calls one after the other on the one service object                     *)
(***************************************************************************)
\* The method is entered again with the same arguments, once the earlier
\* call has left (and its route, if any, has answered): attempt,
\* timeout_duration and delay are locals of the call and start afresh.
\* how the call ended, by what the upstream did to it: every attempt
\* answered 503 ("overloaded"), every attempt answered 429
\* ("rate_limited"), every attempt timed out ("timed_out"), the last answer
\* had another error status ("rejected")
HowEnded ==
    CASE Len(outcomes) = max_retries /\ (\A i \in 1..Len(outcomes) :
             outcomes[i].k = "status" /\ outcomes[i].status = 503) -> "overloaded"
      [] Len(outcomes) = max_retries /\ (\A i \in 1..Len(outcomes) :
             outcomes[i].k = "status" /\ outcomes[i].status = 429) -> "rate_limited"
      [] Len(outcomes) = max_retries /\ (\A i \in 1..Len(outcomes) :
             outcomes[i].k = "timeout") -> "timed_out"
      [] last.k = "status" /\ last.status \notin {200, 503, 429} -> "rejected"
      [] OTHER -> "other"
\* the status the caller saw: of the route's answer, of the error raised,
\* or 0 for a value returned by the method itself
StatusSeen ==
    IF pc = "responded" THEN http.status ELSE error.status

NewCall ==
    /\ calls < MaxCalls
    /\ \/ route = "service" /\ pc \in {"returned", "raised"}
       \/ pc = "responded"
    /\ calls' = calls + 1
    /\ earlier' = [how |-> HowEnded, status |-> StatusSeen]
    /\ pc' = "call" /\ attempt' = 0 /\ requests' = 0
    /\ timeouts' = <<>> /\ sleeps' = <<>> /\ outcomes' = <<>>
    /\ last' = NoOutcome /\ result' = NoResult /\ error' = NoError /\ http' = NoHttp
    /\ UNCHANGED <<route, fn, document_content, kind, file, credentials, path_id, peer, funVars>>

InitCalls ==
    /\ Init
    /\ document_content = W_hello
    /\ kind \in {"user_journey", "summary"}

NextCalls == Next \/ NewCall

SpecCalls == InitCalls /\ [][NextCalls]_vars

(***************************************************************************)
(* Two calls in flight on the one service object                           *)
(***************************************************************************)
\* The methods keep attempt, timeout_duration, delay, the session and the
\* response in locals of the coroutine; of the service object they read
\* api_key, base_url, max_retries and base_delay, written in __init__ only.
\* One coroutine runs at a time; the loop variables of the module are
\* those of the running call, `peer` holds those of the suspended one.
Me ==
    [id |-> 3 - peer.id, fn |-> fn, document_content |-> document_content, kind |-> kind,
     pc |-> pc, attempt |-> attempt, requests |-> requests, timeouts |-> timeouts,
     sleeps |-> sleeps, outcomes |-> outcomes, last |-> last,
     result |-> result, error |-> error]

\* a call that has been scheduled and has not run yet
Scheduled(id, f, doc, type) ==
    [id |-> id, fn |-> f, document_content |-> doc, kind |-> type,
     pc |-> "call", attempt |-> 0, requests |-> 0, timeouts |-> <<>>,
     sleeps |-> <<>>, outcomes |-> <<>>, last |-> NoOutcome,
     result |-> NoResult, error |-> NoError]

\* variant: the loop variable is kept on the service object
Switch_SharedAttempt ==
    /\ peer # NoPeer
    /\ pc \in {"await", "sleep", "returned", "raised"}
    /\ peer.pc \notin {"returned", "raised"}
    /\ peer' = Me
    /\ fn' = peer.fn /\ document_content' = peer.document_content /\ kind' = peer.kind
    /\ pc' = peer.pc /\ attempt' = attempt /\ requests' = peer.requests
    /\ timeouts' = peer.timeouts /\ sleeps' = peer.sleeps /\ outcomes' = peer.outcomes
    /\ last' = peer.last /\ result' = peer.result /\ error' = peer.error
    /\ UNCHANGED <<route, calls, earlier, file, credentials, path_id, http, funVars>>

\* The running call is suspended in `await response.text()` or in `await
\* asyncio.sleep(delay)`, or has left the method: the event loop resumes
\* the other call, whose locals are as it left them.
Switch ==
    /\ peer # NoPeer
    /\ pc \in {"await", "sleep", "returned", "raised"}
    /\ peer.pc \notin {"returned", "raised"}
    /\ peer' = Me
    /\ fn' = peer.fn /\ document_content' = peer.document_content /\ kind' = peer.kind
    /\ pc' = peer.pc /\ attempt' = peer.attempt /\ requests' = peer.requests
    /\ timeouts' = peer.timeouts /\ sleeps' = peer.sleeps /\ outcomes' = peer.outcomes
    /\ last' = peer.last /\ result' = peer.result /\ error' = peer.error
    /\ UNCHANGED <<route, calls, earlier, file, credentials, path_id, http, funVars>>

\* what the upstream does to the attempts of the two calls
PairText == <<Prose("words")>>
PairOutcomes ==
    {Response(200, TextBody(PairText)), Response(200, NotJsonBody),
     Response(503, ErrorEnvelope), Response(429, ErrorEnvelope), TimeoutError}
PairCalls ==
    {[fn |-> "generate_workflow", document_content |-> W_hello, kind |-> "user_journey"],
     [fn |-> "generate_workflow", document_content |-> W_CART, kind |-> "user_journey"],
     [fn |-> "analyze_document", document_content |-> W_hello, kind |-> "summary"]}

PairReceive ==
    \E o \in PairOutcomes : GenerateReceive(o) \/ AnalyzeReceive(o)

InitPair ==
    /\ route = "service"
    /\ \E c \in PairCalls :
          fn = c.fn /\ document_content = c.document_content /\ kind = c.kind
    /\ \E c \in PairCalls : peer = Scheduled(2, c.fn, c.document_content, c.kind)
    /\ calls = 1 /\ earlier = NoEarlier /\ file = NoFile
    /\ credentials = NoCredentials /\ path_id = ""
    /\ LoopStart
    /\ arg = NoArg /\ out = NoOut

NextPair == SendRequest \/ PairReceive \/ Continue \/ Switch

SpecPair == InitPair /\ [][NextPair]_vars

(***************************************************************************)
(* POST /analyze-document-file                                             *)
(***************************************************************************)
\* str.endswith
EndsWith(text, suffix) ==
    /\ Len(text) >= Len(suffix)
    /\ SubSeq(text, Len(text) - Len(suffix) + 1, Len(text)) = suffix

Ext_pdf == <<".", "p", "d", "f">>
Ext_docx == <<".", "d", "o", "c", "x">>
Ext_txt == <<".", "t", "x", "t">>
Ext_md == <<".", "m", "d">>

\* the names of the uploaded files: a stem and an ending
FileStems ==
    {<<"a">>,
     <<"R", "e", "p", "o", "r", "t">>,
     <<"n", "o", "t", "e", "s", ".", "p", "d", "f">>,
     <<"j", "p", "g">>}
FileEndings ==
    {<<".", "p", "d", "f">>,
     <<".", "P", "D", "F">>,
     <<".", "d", "o", "c", "x">>,
     <<".", "D", "o", "c", "X">>,
     <<".", "t", "x", "t">>,
     <<".", "T", "X", "T">>,
     <<".", "m", "d">>,
     <<".", "M", "d">>,
     <<".", "j", "p", "g">>,
     <<".", "J", "P", "G">>,
     <<".", "e", "x", "e">>,
     <<".", "d", "o", "c">>,
     <<".", "p", "d", "f", "x">>,
     <<".", "m", "a", "r", "k", "d", "o", "w", "n">>,
     <<>>,
     <<"p", "d", "f">>}
FileNames == {stem \o ending : stem \in FileStems, ending \in FileEndings}
\* what the bytes of the file are to the parser of its type: a document with
\* text, a document without any text (white space at most), bytes the
\* parser cannot read (no PDF, no DOCX, no UTF-8) that hold visible
\* characters when read as latin-1, and such bytes that are white space in
\* latin-1 (b'\xa0')
FileContents == {"text", "blank", "corrupt", "corrupt_blank"}

\* DocumentParser.parse_pdf / parse_docx / parse_text on the bytes: the
\* text, stripped, or raised = TRUE for the ValueError.  parse_pdf raises
\* when it finds no text; parse_text decodes any bytes (latin-1 never
\* fails) and strips the result.
ParseFile(parser, content) ==
    CASE content = "text" -> [raised |-> FALSE, text |-> W_hello]
      [] content = "blank" ->
           IF parser = "pdf" THEN [raised |-> TRUE] ELSE [raised |-> FALSE, text |-> <<>>]
      [] content = "corrupt" ->
           IF parser = "text" THEN [raised |-> FALSE, text |-> W_hello] ELSE [raised |-> TRUE]
      [] content = "corrupt_blank" ->
           IF parser = "text" THEN [raised |-> FALSE, text |-> <<>>] ELSE [raised |-> TRUE]

\* str.strip() leaves nothing
Blank(text) == \A i \in 1..Len(text) : text[i] = " "

\* variant: a file of an unknown type is read as plain text
ReadUpload_AnyAsText(upload) ==
    LET filename_lower == Lower(upload.filename)
        parser == IF EndsWith(filename_lower, Ext_pdf) THEN "pdf"
                  ELSE IF EndsWith(filename_lower, Ext_docx) THEN "docx"
                  ELSE "text"
        parsed == ParseFile(parser, upload.content)
    IN IF parsed.raised
       THEN [proceed |-> FALSE,
             answer |-> Error(500, "File analysis failed", Raised("ValueError"))]
       ELSE IF Blank(parsed.text)
       THEN [proceed |-> FALSE,
             answer |-> Error(400, "No readable content found in the file", NoCause)]
       ELSE [proceed |-> TRUE, text |-> parsed.text]

\* what the route answers before the service is called, or proceed = TRUE
\* with the document text
ReadUpload(upload) ==
    LET filename_lower == Lower(upload.filename)
        parser == IF EndsWith(filename_lower, Ext_pdf) THEN "pdf"
                  ELSE IF EndsWith(filename_lower, Ext_docx) THEN "docx"
                  ELSE IF EndsWith(filename_lower, Ext_txt) \/ EndsWith(filename_lower, Ext_md)
                  THEN "text"
                  ELSE "none"
        parsed == ParseFile(parser, upload.content)
    IN IF parser = "none"
       THEN [proceed |-> FALSE,
             answer |-> Error(400, "Unsupported file type", NoCause)]
       ELSE IF parsed.raised
       THEN [proceed |-> FALSE,
             answer |-> Error(500, "File analysis failed", Raised("ValueError"))]
       ELSE IF Blank(parsed.text)
       THEN [proceed |-> FALSE,
             answer |-> Error(400, "No readable content found in the file", NoCause)]
       ELSE [proceed |-> TRUE, text |-> parsed.text]

InitUpload ==
    /\ route = "POST /analyze-document-file" /\ fn = "analyze_document"
    /\ document_content = <<>>
    /\ kind \in AnalysisTypes
    /\ calls = 1 /\ earlier = NoEarlier
    /\ file \in [filename : FileNames, content : FileContents]
    /\ credentials = NoCredentials /\ path_id = "" /\ peer = NoPeer
    /\ pc = "upload" /\ attempt = 0 /\ requests = 0
    /\ timeouts = <<>> /\ sleeps = <<>> /\ outcomes = <<>>
    /\ last = NoOutcome /\ result = NoResult /\ error = NoError /\ http = NoHttp
    /\ arg = NoArg /\ out = NoOut

\* the route up to the call of gemini_service.analyze_document
ReadUploadedFile ==
    /\ route = "POST /analyze-document-file" /\ pc = "upload"
    /\ LET read == ReadUpload(file)
       IN IF read.proceed
          THEN /\ pc' = "call" /\ document_content' = read.text
               /\ UNCHANGED http
          ELSE /\ pc' = "responded" /\ http' = read.answer
               /\ UNCHANGED document_content
    /\ UNCHANGED <<route, fn, kind, calls, earlier, file, credentials, path_id, peer,
                   attempt, requests, timeouts,
                   sleeps, outcomes, last, result, error, funVars>>

\* the route after the service method has left: the value in a dict of the
\* route's own (a value that is no mapping fails DocumentAnalysis), an
\* HTTPException raised again as it is
PostAnalyzeDocumentFile ==
    /\ route = "POST /analyze-document-file"
    /\ pc \in {"returned", "raised"}
    /\ pc' = "responded"
    /\ http' = IF pc = "returned" /\ result.v.t = "obj"
               THEN [status |-> 200, filename |-> file.filename, analysis_result |-> result.v,
                     analysis_type |-> kind, document_length |-> Len(document_content),
                     user_id |-> UserIdOf(get_current_user_optional(credentials))]
               ELSE IF pc = "returned"
               THEN Error(500, "File analysis failed", Raised("ValidationError"))
               ELSE error
    /\ UNCHANGED <<callVars, attempt, requests, timeouts, sleeps, outcomes, last, result, error, funVars>>

NextUpload ==
    \/ ReadUploadedFile
    \/ SendRequest
    \/ AnalyzeOn200 \/ AnalyzeOn503 \/ AnalyzeOn429 \/ AnalyzeOnOtherStatus
    \/ AnalyzeOnTimeout \/ AnalyzeOnClientError \/ AnalyzeOnException
    \/ Continue
    \/ PostAnalyzeDocumentFile

SpecUpload == InitUpload /\ [][NextUpload]_vars

(***************************************************************************)
(* Requests to the POST routes with and without credentials                *)
(***************************************************************************)
InitAuth ==
    /\ \/ fn = "generate_workflow" /\ route = "POST /generate-workflow" /\ kind = "user_journey"
       \/ fn = "analyze_document" /\ route = "POST /analyze-document" /\ kind = "summary"
    /\ document_content = W_hello
    /\ calls = 1 /\ earlier = NoEarlier /\ file = NoFile
    /\ credentials \in Credentials /\ path_id = "" /\ peer = NoPeer
    /\ LoopStart
    /\ arg = NoArg /\ out = NoOut

SpecAuth == InitAuth /\ [][Next]_vars

(***************************************************************************)
(* Requests to the GET routes                                              *)
(***************************************************************************)
InitStore ==
    /\ fn = "none" /\ document_content = <<>> /\ kind = "none"
    /\ calls = 1 /\ earlier = NoEarlier /\ file = NoFile
    /\ credentials \in Credentials /\ peer = NoPeer
    /\ \/ route \in {"GET /analyses", "GET /workflows"} /\ path_id = ""
       \/ /\ route \in {"GET /analyses/{analysis_id}", "GET /workflows/{workflow_id}"}
          /\ path_id \in PathIds
    /\ pc = "request" /\ attempt = 0 /\ requests = 0
    /\ timeouts = <<>> /\ sleeps = <<>> /\ outcomes = <<>>
    /\ last = NoOutcome /\ result = NoResult /\ error = NoError /\ http = NoHttp
    /\ arg = NoArg /\ out = NoOut

Answer(answer) ==
    /\ pc = "request"
    /\ pc' = "responded"
    /\ http' = answer
    /\ UNCHANGED <<callVars, attempt, requests, timeouts, sleeps, outcomes, last, result, error, funVars>>

GetAnalyses ==
    route = "GET /analyses" /\ Answer(get_analyses(get_current_user_optional(credentials)))
GetAnalysis ==
    /\ route = "GET /analyses/{analysis_id}"
    /\ Answer(get_analysis(path_id, get_current_user_optional(credentials)))
GetWorkflows ==
    route = "GET /workflows" /\ Answer(get_workflows(get_current_user_optional(credentials)))
GetWorkflow ==
    /\ route = "GET /workflows/{workflow_id}"
    /\ Answer(get_workflow(path_id, get_current_user_optional(credentials)))

NextStore == GetAnalyses \/ GetAnalysis \/ GetWorkflows \/ GetWorkflow

SpecStore == InitStore /\ [][NextStore]_vars

(***************************************************************************)
(* The text handling and the synthesizer applied on their own              *)
(***************************************************************************)
Idle ==
    /\ route = "none" /\ fn = "none" /\ document_content = <<>> /\ kind = "none"
    /\ calls = 0 /\ earlier = NoEarlier /\ file = NoFile
    /\ credentials = NoCredentials /\ path_id = "" /\ peer = NoPeer
    /\ pc = "idle" /\ attempt = 0 /\ requests = 0
    /\ timeouts = <<>> /\ sleeps = <<>> /\ outcomes = <<>>
    /\ last = NoOutcome /\ result = NoResult /\ error = NoError /\ http = NoHttp

\* the argument ranges over the texts of TextsUpTo(MaxItems), drawn value by
\* value
NormalizerArg(t) ==
    [f |-> "normalize", content |-> t, document_content |-> W_CART,
     workflow_type |-> "user_journey"]
InitNormalizer ==
    /\ Idle
    /\ \/ \E items \in SeqsUpTo(ArrayItems, MaxItems) : \E v \in Wrappings(JArr(items)) :
             \E t \in TextsOf(v) : arg = NormalizerArg(t)
       \/ \E v \in OtherValues : \E t \in TextsOf(v) : arg = NormalizerArg(t)
       \/ \E t \in GarbageTexts : arg = NormalizerArg(t)
    /\ out = NoOut

ApplyNormalizer ==
    /\ arg.f = "normalize" /\ out = NoOut
    /\ out' = NormalizeOrFallback(arg.content, arg.document_content, arg.workflow_type)
    /\ UNCHANGED <<callVars, loopVars, http, arg>>

SpecNormalizer == InitNormalizer /\ [][ApplyNormalizer]_vars

\* the normalizer on arrays that mix node objects with other elements
BuildItems ==
    {NodeA, NodeEmpty, NodeLoose, NodeStringX, NodeStringConns, NodeObjectConns,
     NodeWordX, NodeNumberConns, JStr("junk"), JNum(7)}
InitBuild ==
    /\ Idle
    /\ \E items \in SeqsUpTo(BuildItems, MaxBuildItems) :
          \E t \in {<<Json(JArr(items))>>, <<Prose("words"), Json(JArr(items))>>} :
             arg = NormalizerArg(t)
    /\ out = NoOut

SpecBuild == InitBuild /\ [][ApplyNormalizer]_vars

InitFallback ==
    /\ Idle
    /\ arg \in {[f |-> "fallback", content |-> d, workflow_type |-> k] :
                  d \in DocsUpTo(MaxDocWords), k \in WorkflowTypes}
    /\ out = NoOut

ApplyFallback ==
    /\ arg.f = "fallback" /\ out = NoOut
    /\ out' = Return(Nodes(_create_smart_fallback_workflow(arg.content, arg.workflow_type),
                           "fallback"))
    /\ UNCHANGED <<callVars, loopVars, http, arg>>

SpecFallback == InitFallback /\ [][ApplyFallback]_vars

\* two calls of the synthesizer, one after the other
InitFallbackPair ==
    /\ Idle
    /\ arg \in {[f |-> "fallback_pair", content |-> p[1], other |-> p[2], workflow_type |-> k] :
                  p \in DocPairsUpTo(MaxDocWords), k \in WorkflowTypes}
    /\ out = NoOut

ApplyFallbackPair ==
    /\ arg.f = "fallback_pair" /\ out = NoOut
    /\ out' = [do |-> "return",
               result |-> Nodes(_create_smart_fallback_workflow(arg.content, arg.workflow_type),
                                "fallback"),
               other |-> Nodes(_create_smart_fallback_workflow(arg.other, arg.workflow_type),
                               "fallback")]
    /\ UNCHANGED <<callVars, loopVars, http, arg>>

SpecFallbackPair == InitFallbackPair /\ [][ApplyFallbackPair]_vars

(***************************************************************************)
(* Properties                                                              *)
(***************************************************************************)
IsGenerate == fn = "generate_workflow"
IsAnalyze == fn = "analyze_document"
\* the method has returned or raised
Left == pc \in {"returned", "raised", "responded"}
HasReturned == Left /\ result # NoResult /\ error = NoError
HasRaised == Left /\ error # NoError /\ result = NoResult
Got200 == last.k = "status" /\ last.status = 200
Got200Text == Got200 /\ last.body.b = "text"
Is200(o) == o.k = "status" /\ o.status = 200
IsStatus(o, st) == o.k = "status" /\ o.status = st

\* the conversion of the text into nodes raises (a value that cannot be
\* iterated, connections that cannot be iterated, a field of a wrong type)
ConversionRaises(text) ==
    LET strict == JsonLoads(StripFence(text))
        json_match == RegexLoads(text, "arr")
    IN IF strict.ok THEN BuildNodes(Unwrap(strict.v), 200, 300).raised
       ELSE json_match.match /\ json_match.ok /\ BuildNodes(json_match.v, 100, 150).raised

\* json.loads fails on the text and the text has no parseable bracketed array
Unparseable(text) ==
    /\ ~JsonLoads(StripFence(text)).ok
    /\ ~(RegexLoads(text, "arr").match /\ RegexLoads(text, "arr").ok)

\* C1: once an attempt of generate_workflow has received a 200 answer,
\* whatever its body, the call has returned a node sequence, has raised
\* nothing and has made no further request.  Violated: a 200 whose body or
\* candidate text raises anything but a JSON decode error inside the try
\* block reaches `except Exception`, which retries or raises 500.
C1_Any200Returns ==
    (IsGenerate /\ Got200) =>
        /\ HasReturned /\ result.kind = "nodes"
        /\ requests = Len(outcomes)

\* C2: when the candidate text of a 200 answer is not parseable as JSON and
\* has no parseable bracketed array, generate_workflow raises nothing and
\* returns exactly the graph of the fallback synthesizer for its document
\* and workflow type.
C2_GarbageGivesFallback ==
    (IsGenerate /\ Got200Text /\ Unparseable(last.body.text)) =>
        /\ HasReturned /\ result.kind = "nodes"
        /\ result.nodes = _create_smart_fallback_workflow(document_content, kind)

C2_Witness ==
    /\ IsGenerate /\ Got200Text /\ Unparseable(last.body.text)
    /\ pc = "returned" /\ document_content = W_CART /\ kind = "service_blueprint"
    /\ result.nodes = GenericBlueprint

\* C3, as stated: three 503 answers in a row to one generate_workflow call
\* make exactly 3 requests and end the call with the 503 "overloaded"
\* error, without a fallback graph.
C3_Three503RaiseOverloaded ==
    (IsGenerate /\ Len(outcomes) = 3 /\ \A i \in 1..3 : IsStatus(outcomes[i], 503)) =>
        /\ requests = 3
        /\ HasRaised
        /\ error.status = 503

\* C4, as stated: in generate_workflow an answer whose status is neither 200
\* nor 503 nor 429 ends the call with an error in that attempt, with no
\* sleep and no request after it.
C4_OtherStatusIsFatal ==
    (IsGenerate /\ last.k = "status" /\ last.status \notin {200, 503, 429}) =>
        /\ HasRaised
        /\ requests = Len(outcomes)
        /\ Len(sleeps) = Len(outcomes) - 1

\* C5, as stated: in both methods the error raised for an answer whose
\* status is neither 200 nor 503 nor 429 carries that status.
C5_ErrorCarriesUpstreamStatus ==
    (HasRaised /\ last.k = "status" /\ last.status \notin {200, 503, 429}) =>
        error.status = last.status

\* C6, as stated: in both methods, when all 3 attempts fail for the same
\* retryable cause, the error names the cause: 503 for three 503 answers,
\* 429 for three 429 answers, 504 for three timeouts.
AllThree(Cause(_)) == Len(outcomes) = 3 /\ \A i \in 1..3 : Cause(outcomes[i])
C6_ErrorNamesCause ==
    /\ (Left /\ AllThree(LAMBDA o : IsStatus(o, 503))) => (HasRaised /\ error.status = 503)
    /\ (Left /\ AllThree(LAMBDA o : IsStatus(o, 429))) => (HasRaised /\ error.status = 429)
    /\ (Left /\ AllThree(LAMBDA o : o.k = "timeout")) => (HasRaised /\ error.status = 504)

\* C7: generate_workflow returns a fallback graph only in an attempt that
\* got a 200 answer with candidate text; as long as no attempt has got a
\* 200 answer the call has returned nothing, it never leaves the loop
\* without an attempt, and when it ends it ends with an error.
C7_FallbackOnlyAfter200 ==
    IsGenerate =>
        /\ (result.kind = "nodes" /\ result.via = "fallback") =>
               (Got200Text /\ Len(outcomes) = attempt + 1)
        /\ (\A i \in 1..Len(outcomes) : ~Is200(outcomes[i])) =>
               /\ result = NoResult
               /\ pc = "call" => attempt < 3
               /\ Left => (HasRaised /\ Len(outcomes) = 3)

C7_Witness ==
    /\ IsGenerate /\ pc = "returned" /\ result.via = "fallback"
    /\ attempt = 2 /\ IsStatus(outcomes[1], 503) /\ outcomes[2].k = "timeout"

\* C8: one call to analyze_document or generate_workflow makes at most 3
\* upstream requests.
C8_AtMostThreeRequests ==
    requests <= 3 /\ Len(timeouts) = requests

C8_Witness ==
    /\ IsAnalyze /\ pc = "raised" /\ requests = 3 /\ error.status = 504

\* C9, as stated: POST /generate-workflow with workflow_type user_journey
\* and a document containing "e-commerce" or "cart", served while the
\* upstream answers 200 with unparseable text, responds with the 11-node
\* e-commerce graph.
EcommerceIds ==
    <<"start", "browse", "select", "cart", "auth_check", "login", "payment",
      "success_check", "retry", "confirmation", "end">>
C9_RouteReturnsEcommerceGraph ==
    (/\ route = "POST /generate-workflow" /\ pc = "responded"
     /\ kind = "user_journey"
     /\ (Contains(document_content, Kw_e_commerce) \/ Contains(document_content, Kw_cart))
     /\ Got200Text /\ Unparseable(last.body.text)) =>
        /\ http.status = 200
        /\ [i \in 1..Len(http.workflow_nodes) |-> http.workflow_nodes[i].id] = EcommerceIds

\* a node object as the prompt asks for it: the six fields with values of
\* their types, every connection a non-empty id or an object with one as
\* its target
WellFormedConnection(c) ==
    \/ c.t = "str" /\ c.v # ""
    \/ /\ c.t = "obj" /\ "target" \in DOMAIN c.v
       /\ c.v.target.t = "str" /\ c.v.target.v # ""
WellFormedNode(n) ==
    /\ n.t = "obj"
    /\ DOMAIN n.v = {"id", "type", "label", "x", "y", "connections"}
    /\ n.v.id.t = "str" /\ n.v.type.t = "str" /\ n.v.label.t = "str"
    /\ n.v.x.t = "num" /\ n.v.y.t = "num"
    /\ n.v.connections.t = "arr"
    /\ \A i \in 1..Len(n.v.connections.v) : WellFormedConnection(n.v.connections.v[i])
IsNodeArray(a) ==
    a.t = "arr" /\ Len(a.v) >= 3 /\ \A i \in 1..Len(a.v) : WellFormedNode(a.v[i])
\* the array a parsed value is or wraps: the value itself, the value under
\* `workflow`, or the value under `nodes` of an object without `workflow`
Payload(v) ==
    IF v.t = "obj" /\ "workflow" \in DOMAIN v.v THEN v.v.workflow
    ELSE IF v.t = "obj" /\ "nodes" \in DOMAIN v.v THEN v.v.nodes
    ELSE v
TargetOf(c) == IF c.t = "obj" THEN c.v.target.v ELSE c.v

\* C10: for a text that is a JSON array of 3 or more well-formed node
\* objects, bare or under the key workflow or nodes, the normalizer returns
\* one node per object, in order, with the object's id and with the targets
\* of its connections, in order, as connections.
C10_NormalizerPreservesNodes ==
    LET strict == JsonLoads(StripFence(arg.content))
        a == Payload(strict.v)
    IN (arg.f = "normalize" /\ out # NoOut /\ strict.ok /\ IsNodeArray(a)) =>
            /\ out.do = "return" /\ out.result.via = "strict"
            /\ Len(out.result.nodes) = Len(a.v)
            /\ \A i \in 1..Len(a.v) :
                  /\ out.result.nodes[i].id = a.v[i].v.id.v
                  /\ out.result.nodes[i].connections =
                        [k \in 1..Len(a.v[i].v.connections.v) |->
                            TargetOf(a.v[i].v.connections.v[k])]

C10_Witness ==
    /\ arg.f = "normalize" /\ out # NoOut
    /\ arg.content = <<FenceJson, Json(JObj([nodes |-> JArr(<<NodeB, NodeA, NodeC>>)])), FencePlain>>
    /\ out.do = "return"
    /\ out.result.nodes[1].connections = <<"c", "a">>

\* the value the nodes are built from: the payload of the parsed text, or
\* else the parsed bracketed stretch of the text; found = FALSE without one
Candidate(text) ==
    LET strict == JsonLoads(StripFence(text))
        json_match == RegexLoads(text, "arr")
    IN IF strict.ok THEN [found |-> TRUE, path |-> "strict", v |-> Payload(strict.v)]
       ELSE IF json_match.match /\ json_match.ok
       THEN [found |-> TRUE, path |-> "extract", v |-> json_match.v]
       ELSE [found |-> FALSE]
\* the number of objects among the elements of a JSON array (none elsewhere)
ObjectsIn(v) ==
    IF v.t = "arr" THEN Len(SelectSeq(v.v, LAMBDA e : e.t = "obj")) ELSE 0

\* C11: a node sequence built from the text is returned only when it has
\* more than 2 nodes; when the conversion raises nothing and yields 0, 1 or
\* 2 nodes, on the strict path as on the extraction path, the fallback graph
\* for the document and workflow type is returned instead.
C11_SmallGraphGivesFallback ==
    (arg.f = "normalize" /\ out # NoOut) =>
        LET c == Candidate(arg.content)
        IN /\ (out.do = "return" /\ out.result.via # "fallback") =>
                  Len(out.result.nodes) > 2
           /\ (c.found /\ ~ConversionRaises(arg.content) /\ ObjectsIn(c.v) <= 2) =>
                  out = Return(Nodes(_create_smart_fallback_workflow(arg.document_content,
                                                                     arg.workflow_type),
                                     "fallback"))

C11_Witness ==
    /\ arg.f = "normalize" /\ out # NoOut
    /\ arg.content = <<Prose("words"), Json(JArr(<<NodeA, NodeB>>))>>
    /\ Candidate(arg.content).path = "extract"
    /\ out.do = "return" /\ out.result.via = "fallback"

\* some node of the sequence has the given type
HasType(nodes, type) == \E i \in 1..Len(nodes) : nodes[i].type = type
\* some object of the JSON array gives the type in its `type` field
GivesType(v, type) ==
    v.t = "arr" /\ \E i \in 1..Len(v.v) :
        v.v[i].t = "obj" /\ "type" \in DOMAIN v.v[i].v /\ v.v[i].v.type = JStr(type)

\* C12, as stated: every node sequence generate_workflow returns, built from
\* the response or by the fallback synthesizer, has a start node and an end
\* node.
C12_EveryGraphHasStartAndEnd ==
    (IsGenerate /\ HasReturned /\ result.kind = "nodes") =>
        HasType(result.nodes, "start") /\ HasType(result.nodes, "end")

\* C12, amended: every fallback graph generate_workflow returns has a start
\* node and an end node; a node sequence built from the response has a start
\* (an end) node exactly when an object of the response gives that type.
C12_FallbackHasStartAndEnd ==
    (IsGenerate /\ HasReturned /\ result.kind = "nodes") =>
        /\ result.via = "fallback" =>
               HasType(result.nodes, "start") /\ HasType(result.nodes, "end")
        /\ result.via # "fallback" =>
               \A type \in {"start", "end"} :
                   HasType(result.nodes, type) <=>
                       GivesType(Candidate(last.body.text).v, type)

C12_Witness ==
    /\ IsGenerate /\ pc = "returned" /\ result.via = "extract"
    /\ HasType(result.nodes, "start") /\ ~HasType(result.nodes, "end")

\* the node types of WorkflowNode
NodeTypes == {"start", "process", "decision", "end"}

\* C13, as stated: every node of every node sequence generate_workflow
\* returns has one of the types start, process, decision, end.
C13_TypesAreNodeTypes ==
    (IsGenerate /\ HasReturned /\ result.kind = "nodes") =>
        \A i \in 1..Len(result.nodes) : result.nodes[i].type \in NodeTypes

\* the number of nodes of the given type
CountType(nodes, type) == Len(SelectSeq(nodes, LAMBDA node : node.type = type))

\* C14, as stated: every graph of the fallback synthesizer, for any document
\* and any workflow type, has at least 5 nodes, exactly one start node and
\* exactly one end node.
C14_OneStartOneEnd ==
    (arg.f = "fallback" /\ out # NoOut) =>
        /\ Len(out.result.nodes) >= 5
        /\ CountType(out.result.nodes, "start") = 1
        /\ CountType(out.result.nodes, "end") = 1

\* C14, amended: every graph of the fallback synthesizer, for any document
\* and any workflow type, has at least 5 nodes, exactly one start node and
\* at least one end node.
C14_OneStartSomeEnd ==
    (arg.f = "fallback" /\ out # NoOut) =>
        /\ Len(out.result.nodes) >= 5
        /\ CountType(out.result.nodes, "start") = 1
        /\ CountType(out.result.nodes, "end") >= 1

C14_Witness ==
    /\ arg.f = "fallback" /\ out # NoOut
    /\ arg.workflow_type = "feature_flow" /\ Contains(Lower(arg.content), Kw_api)
    /\ CountType(out.result.nodes, "end") = 4

\* C15: two calls of the fallback synthesizer with the same workflow type
\* and with documents that are equal after lower-casing return the same
\* graph: the same nodes in the same order, with the same ids, types,
\* labels, coordinates and connections.
C15_FallbackIgnoresCase ==
    (arg.f = "fallback_pair" /\ out # NoOut /\ Lower(arg.content) = Lower(arg.other)) =>
        out.result.nodes = out.other.nodes

C15_Witness ==
    /\ arg.f = "fallback_pair" /\ out # NoOut
    /\ arg.content = JoinWords(<<W_Shopping, W_Cart>>)
    /\ arg.other = JoinWords(<<W_SHOPPING, W_CART>>)
    /\ arg.workflow_type = "user_journey"
    /\ out.result.nodes = EcommerceJourney /\ out.other.nodes = EcommerceJourney

\* C16: on a 200 answer with candidate text t, analyze_document returns, in
\* that attempt and without raising, the value parsed from the fence-stripped
\* t when that parses, else the value parsed from the braced stretch of t
\* when that parses, else exactly the mapping {"raw_analysis": t}.
C16_AnalysisFromText ==
    (IsAnalyze /\ Got200Text) =>
        LET t == last.body.text
            strict == JsonLoads(StripFence(t))
            braced == RegexLoads(t, "obj")
        IN /\ HasReturned /\ result.kind = "analysis"
           /\ requests = Len(outcomes)
           /\ result.v = IF strict.ok THEN strict.v
                         ELSE IF braced.match /\ braced.ok THEN braced.v
                         ELSE JObj([raw_analysis |-> JStr(t)])

C16_Witness ==
    /\ IsAnalyze /\ Got200Text /\ pc = "returned"
    /\ last.body.text = <<Prose("words"), Json(SummaryObject)>>
    /\ result.v = SummaryObject
    /\ result.v.v.executive_summary = JStr("Brief")

\* C17, as stated: every value analyze_document returns is a mapping (a JSON
\* object), never a list, a string, a number or null.
C17_AnalysisIsMapping ==
    (IsAnalyze /\ HasReturned) =>
        result.kind = "analysis" /\ result.v.t = "obj"

\* C18: in analyze_document an answer whose status is neither 200 nor 503
\* nor 429 ends the call with an error in that attempt, whichever attempt it
\* is: no sleep follows it and no request is sent after it.
C18_AnalyzeOtherStatusIsFatal ==
    (IsAnalyze /\ last.k = "status" /\ last.status \notin {200, 503, 429}) =>
        /\ HasRaised
        /\ requests = Len(outcomes)
        /\ Len(sleeps) = Len(outcomes) - 1
        /\ Len(outcomes) = attempt + 1

C18_Witness ==
    /\ IsAnalyze /\ pc = "raised" /\ attempt = 1
    /\ last = Response(403, ErrorEnvelope)
    /\ requests = 2 /\ sleeps = <<2>>

\* C19, as stated: in both methods the sleep after failed attempt k (k = 0
\* or 1, the i-th attempt with i = k + 1) lasts 2 * 2^k seconds after a 503
\* answer, a timeout or a connection error and 2 * 3^k seconds after a 429
\* answer, and no sleep follows the third attempt.
C19_BackoffDelays ==
    /\ Len(sleeps) <= 2
    /\ \A i \in 1..Len(sleeps) :
          /\ (IsStatus(outcomes[i], 503) \/ outcomes[i].k \in {"timeout", "client_error"}) =>
                 sleeps[i] = 2 * (2 ^ (i - 1))
          /\ IsStatus(outcomes[i], 429) => sleeps[i] = 2 * (3 ^ (i - 1))

\* C20: in both methods the timeout of the request of attempt k (the i-th
\* request, i = k + 1) is 30 + 15 * k seconds: 30, 45, 60, growing with every
\* retry of a call, and the first request of every call, the first call or a
\* later one, has 30.
C20_TimeoutBudget ==
    /\ Len(timeouts) = requests
    /\ \A i \in 1..Len(timeouts) : timeouts[i] = 30 + (15 * (i - 1))
    /\ \A i \in 1..Len(timeouts), j \in 1..Len(timeouts) : i < j => timeouts[i] < timeouts[j]
    /\ (pc = "await" /\ attempt = 0) => timeouts = <<30>>

C20_Witness ==
    /\ calls = 2 /\ IsGenerate /\ pc = "await"
    /\ timeouts = <<30, 45, 60>>

\* C21, as stated: the status POST /analyze-document answers with after the
\* upstream stayed overloaded, rate-limited or timed out through all
\* attempts differs from the status it answers with after the upstream
\* rejected the request with an error status.
C21_RetryLaterDiffersFromRejected ==
    (/\ route = "POST /analyze-document" /\ pc = "responded"
     /\ earlier.how \in {"overloaded", "rate_limited", "timed_out"}
     /\ HowEnded = "rejected") =>
        http.status # earlier.status

\* the file name ends, in whatever letter case, in .pdf, .docx, .txt or .md
SupportedName(filename) ==
    \E ending \in {Ext_pdf, Ext_docx, Ext_txt, Ext_md} : EndsWith(Lower(filename), ending)

\* C22: an upload to POST /analyze-document-file whose name does not end
\* (in whatever letter case) in .pdf, .docx, .txt or .md is answered with
\* status 400 "Unsupported file type", and no upstream request is made for
\* it.
C22_UnsupportedFileRejected ==
    (route = "POST /analyze-document-file" /\ ~SupportedName(file.filename)) =>
        /\ requests = 0 /\ timeouts = <<>> /\ outcomes = <<>>
        /\ pc \in {"upload", "responded"}
        /\ pc = "responded" =>
               http.status = 400 /\ http.detail = "Unsupported file type"

C22_Witness ==
    /\ route = "POST /analyze-document-file" /\ pc = "responded"
    /\ file.filename = <<"n", "o", "t", "e", "s", ".", "p", "d", "f", ".", "J", "P", "G">> /\ file.content = "text"
    /\ http.status = 400 /\ requests = 0

\* C23, as stated: GET /analyses, /analyses/{id}, /workflows and
\* /workflows/{id} answer every request with status 503, never with a
\* success and never with 500.
C23_StoreRoutesAnswer503 ==
    (route \in GetRoutes /\ pc = "responded") => http.status = 503

\* C24, as stated: the result POST /analyze-document or POST
\* /generate-workflow hands back to a request with a valid, unexpired bearer
\* token has the user id of the token as its user_id, and the result of a
\* request without credentials has a null user_id.
C24_ResultTaggedWithCaller ==
    (/\ route \in {"POST /analyze-document", "POST /generate-workflow"}
     /\ pc = "responded" /\ http.status = 200) =>
        /\ credentials = Bearer(ValidToken) => http.user_id = ValidToken.user_id
        /\ credentials = NoCredentials => http.user_id = None.id

\* ---- two calls in flight ----
\* the outcome of the i-th attempt of call c, from what the call recorded
FullOutcome(c, i) ==
    IF i = Len(c.outcomes) THEN c.last
    ELSE IF c.outcomes[i].k = "status"
    THEN Response(c.outcomes[i].status, [b |-> c.outcomes[i].body])
    ELSE c.outcomes[i]

StepOf(c, outcome, a) ==
    IF c.fn = "generate_workflow"
    THEN GenerateAttempt(outcome, a, c.document_content, c.kind)
    ELSE AnalyzeAttempt(outcome, a)

\* the locals of a call that is the only one on the service object, when
\* its n-th attempt has ended: a function of the arguments of c and of the
\* outcomes of its first n attempts
RECURSIVE AloneAfter(_, _)
AloneAfter(c, n) ==
    IF n = 0
    THEN [pc |-> "call", attempt |-> 0, requests |-> 0, timeouts |-> <<>>,
          sleeps |-> <<>>, result |-> NoResult, error |-> NoError]
    ELSE LET prev == AloneAfter(c, n - 1)
             step == StepOf(c, FullOutcome(c, n), n - 1)
         IN [pc |-> IF n > 1 /\ prev.pc # "sleep" THEN "left before"
                    ELSE CASE step.do = "return" -> "returned"
                           [] step.do = "raise" -> "raised"
                           [] step.do = "retry" -> "sleep",
             attempt |-> n - 1,
             requests |-> n,
             timeouts |-> Append(prev.timeouts, 30 + (15 * (n - 1))),
             sleeps |-> IF step.do = "retry" THEN Append(prev.sleeps, step.delay)
                        ELSE prev.sleeps,
             result |-> IF step.do = "return" THEN step.result ELSE NoResult,
             error |-> IF step.do = "raise" THEN step.error ELSE NoError]

Locals(c) ==
    [pc |-> c.pc, attempt |-> c.attempt, requests |-> c.requests, timeouts |-> c.timeouts,
     sleeps |-> c.sleeps, result |-> c.result, error |-> c.error]

AttemptEnded(c) == c.pc \in {"sleep", "returned", "raised"}

\* C25: with two calls in flight, under every interleaving, each call is
\* where it would be as the only call given its own arguments and the
\* outcomes of its own attempts; while one call sleeps in backoff the other
\* can be resumed; and a step of one call leaves the locals of the other
\* as they were.
C25_CallsAreIndependent ==
    /\ [](peer # NoPeer =>
            /\ \A c \in {Me, peer} :
                  AttemptEnded(c) => Locals(c) = AloneAfter(c, Len(c.outcomes))
            /\ (pc = "sleep" /\ peer.pc \notin {"returned", "raised"}) => ENABLED Switch)
    /\ [][peer # NoPeer => (peer' = peer \/ (peer' = Me /\ Me' = peer))]_vars
\* one call has made its three attempts and returned while the other was
\* in its first backoff sleep all along
C25_Witness ==
    /\ peer # NoPeer
    /\ peer.pc = "sleep" /\ peer.requests = 1
    /\ pc = "returned" /\ requests = 3 /\ Len(sleeps) = 2

\* ---- the nodes built from an array ----
\* the positions (from 1) of the objects among the elements of an array
ObjectPositions(items) ==
    SelectSeq([j \in 1..Len(items) |-> j], LAMBDA j : items[j].t = "obj")
\* the normalizer has returned nodes built from the text
BuiltFromText ==
    /\ arg.f = "normalize" /\ out # NoOut
    /\ out.do = "return" /\ out.result.via \in {"strict", "extract"}
\* x and y of every returned node: the object's own where it has one (the
\* integer itself, or the integer a numeric string stands for), else
\* y = 100 and x = x0 + dx * i on the strict path, x1 + dx1 * i on the
\* extraction path, i the zero-based position of the object in the array
LayoutIs(x0, dx, x1, dx1) ==
    BuiltFromText =>
        LET c == Candidate(arg.content)
            at == ObjectPositions(c.v.v)
        IN /\ Len(out.result.nodes) = Len(at)
           /\ \A k \in 1..Len(at) :
                 LET object == c.v.v[at[k]].v
                     i == at[k] - 1
                     node == out.result.nodes[k]
                 IN /\ node.x = IF "x" \in DOMAIN object THEN IntArg(object.x)
                                 ELSE IF out.result.via = "strict" THEN x0 + (dx * i)
                                 ELSE x1 + (dx1 * i)
                    /\ node.y = IF "y" \in DOMAIN object THEN IntArg(object.y) ELSE 100

\* C26 (as stated): a node object at position i without x gets
\* x = 200 + 300 i on the strict path and x = 200 + 150 i on the extraction
\* path, without y it gets y = 100; an x or y of the object is kept.
C26_DefaultLayout == LayoutIs(200, 300, 200, 150)
\* C26 (amended): as above, with x = 100 + 150 i on the extraction path;
\* an x or y written as a numeric string is kept as the integer it stands
\* for.
C26_DefaultLayoutAsCoded == LayoutIs(200, 300, 100, 150)
\* nodes without coordinates returned on the extraction path, after a node
\* that has its own
C26_Witness ==
    /\ BuiltFromText /\ out.result.via = "extract"
    /\ Len(out.result.nodes) = 4
    /\ out.result.nodes[1].x = NodeA.v.x.v
    /\ out.result.nodes[2].x = 250 /\ out.result.nodes[2].y = 100
    /\ out.result.nodes[3].x = 400
    /\ arg.content = <<Prose("words"), Json(JArr(<<NodeA, NodeEmpty, NodeEmpty, NodeStringX>>))>>
    /\ out.result.nodes[4].x = 5 /\ out.result.nodes[4].y = 5

\* str(i), written out
Decimal(i) ==
    CASE i = 0 -> "0" [] i = 1 -> "1" [] i = 2 -> "2" [] i = 3 -> "3" [] i = 4 -> "4"
      [] i = 5 -> "5" [] i = 6 -> "6"

\* C27: the returned nodes are those of the array's objects, in order;
\* the object at zero-based position i (counting every element, the
\* skipped ones included) gets id "node_<i>" without an id, label
\* "Step <i+1>" without a label, type "process" without a type; a type
\* string of its own is kept, whatever it is.
C27_DefaultsByPosition ==
    BuiltFromText =>
        LET c == Candidate(arg.content)
            at == ObjectPositions(c.v.v)
        IN /\ Len(out.result.nodes) = Len(at)
           /\ \A k \in 1..Len(at) :
                 LET object == c.v.v[at[k]].v
                     i == at[k] - 1
                     node == out.result.nodes[k]
                 IN /\ node.id = IF "id" \in DOMAIN object THEN object.id.v
                                  ELSE "node_" \o Decimal(i)
                    /\ node.label = IF "label" \in DOMAIN object THEN object.label.v
                                     ELSE "Step " \o Decimal(i + 1)
                    /\ node.type = IF "type" \in DOMAIN object THEN object.type.v
                                    ELSE "process"
\* an array with an element that is no object: the objects after it are
\* node_2 and node_3, "Step 3" and "Step 4", and the type "subprocess" of
\* the first object comes through
C27_Witness ==
    /\ BuiltFromText
    /\ arg.content = <<Json(JArr(<<NodeLoose, JStr("junk"), NodeEmpty, NodeEmpty>>))>>
    /\ Len(out.result.nodes) = 3
    /\ out.result.nodes[1].type = "subprocess" /\ out.result.nodes[1].label = "Step 1"
    /\ out.result.nodes[2].id = "node_2" /\ out.result.nodes[3].label = "Step 4"

\* ---- the choice of the fallback graph ----
\* the lower-cased document holds one of the keywords
AnyOf(content, keywords) == \E kw \in keywords : Contains(Lower(content), kw)
\* the graph is the given literal, of the given number of nodes
IsGraph(nodes, graph, n) == nodes = graph /\ Len(nodes) = n

\* C28: the synthesizer picks its graph by substring tests on the
\* lower-cased text, the buckets of a kind in a fixed order: user_journey
\* commerce (11 nodes), else social (9), else generic (7);
\* service_blueprint support (13), else generic (9); feature_flow API (12),
\* else generic (9); any other kind the default (6) whatever the text.
C28_SelectionPriority ==
    (arg.f = "fallback" /\ out # NoOut) =>
        LET doc == arg.content
            g == out.result.nodes
        IN CASE arg.workflow_type = "user_journey" ->
                  IF AnyOf(doc, {Kw_e_commerce, Kw_shopping, Kw_cart})
                  THEN IsGraph(g, EcommerceJourney, 11)
                  ELSE IF AnyOf(doc, {Kw_social, Kw_post, Kw_media})
                  THEN IsGraph(g, SocialJourney, 9)
                  ELSE IsGraph(g, GenericJourney, 7)
             [] arg.workflow_type = "service_blueprint" ->
                  IF AnyOf(doc, {Kw_support, Kw_ticket, Kw_customer})
                  THEN IsGraph(g, SupportBlueprint, 13)
                  ELSE IsGraph(g, GenericBlueprint, 9)
             [] arg.workflow_type = "feature_flow" ->
                  IF AnyOf(doc, {Kw_api, Kw_integration})
                  THEN IsGraph(g, ApiFlow, 12)
                  ELSE IsGraph(g, GenericFlow, 9)
             [] OTHER -> IsGraph(g, DefaultWorkflow, 6)
\* a text of both user_journey buckets gets the commerce graph
C28_Witness ==
    /\ arg.f = "fallback" /\ out # NoOut
    /\ arg.workflow_type = "user_journey"
    /\ arg.content = JoinWords(<<W_Media, W_CART>>)
    /\ out.result.nodes = EcommerceJourney

\* ---- the fallback graphs as flow graphs ----
NodeIds(g) == {g[i].id : i \in 1..Len(g)}
\* the targets of the connections of the nodes with the given id
Successors(g, id) ==
    UNION {{g[i].connections[k] : k \in 1..Len(g[i].connections)} :
             i \in {j \in 1..Len(g) : g[j].id = id}}
RECURSIVE Closure(_, _, _)
Closure(g, ids, n) ==
    IF n = 0 THEN ids
    ELSE Closure(g, ids \cup UNION {Successors(g, id) : id \in ids}, n - 1)
\* the ids reached from id by following connections
Reach(g, id) == Closure(g, {id}, Len(g))
WellFormedGraph(g) ==
    /\ \A i, j \in 1..Len(g) : g[i].id = g[j].id => i = j
    /\ \A i \in 1..Len(g) : \A k \in 1..Len(g[i].connections) :
          g[i].connections[k] \in NodeIds(g)
    /\ \A i \in 1..Len(g) : g[i].type = "decision" => Len(g[i].connections) = 2
    /\ \A i \in 1..Len(g) : g[i].type = "end" => g[i].connections = <<>>
    /\ \A i \in 1..Len(g) : g[i].type = "start" => Reach(g, g[i].id) = NodeIds(g)
    /\ \E i \in 1..Len(g) : g[i].type = "start"
    /\ \A i \in 1..Len(g) :
          \E j \in 1..Len(g) : g[j].type = "end" /\ g[j].id \in Reach(g, g[i].id)

\* C29: every graph the synthesizer returns has pairwise distinct node ids,
\* connections that all lead to nodes of the graph, two connections out of
\* every decision node and none out of an end node, every node reachable
\* from the start node, and an end node reachable from every node.
C29_FallbackGraphsWellFormed ==
    (arg.f = "fallback" /\ out # NoOut) => WellFormedGraph(out.result.nodes)
\* the largest graph, with its decision nodes, has been returned
C29_Witness ==
    /\ arg.f = "fallback" /\ out # NoOut
    /\ out.result.nodes = SupportBlueprint
    /\ Cardinality({i \in 1..Len(out.result.nodes) :
                      out.result.nodes[i].type = "decision"}) >= 2
    /\ Cardinality(Reach(out.result.nodes, "start")) = 13

\* ---- termination ----
\* the method has left: it returned a value or raised an error (and the
\* route, if any, may have answered since)
Ended ==
    \/ pc = "returned" /\ result # NoResult /\ error = NoError
    \/ pc = "raised" /\ error # NoError /\ result = NoResult
    \/ pc = "responded" /\ ((result # NoResult) # (error # NoError))

\* C30: whatever the upstream does to the attempts, a call of
\* analyze_document or generate_workflow ends, by returning an analysis or
\* a node sequence or by raising an error; the loop is never at its head
\* with its three attempts used up, which is where it would end without
\* either.
C30_EveryCallEnds ==
    /\ []((pc = "call" => attempt < 3)
          /\ (pc \in {"returned", "raised", "responded"} => Ended)
          /\ (pc = "returned" /\ IsGenerate => result.kind = "nodes")
          /\ (pc = "returned" /\ IsAnalyze => result.kind = "analysis"))
    /\ <>Ended
\* a call that ended in its third attempt, after a 503 and a timeout
C30_Witness ==
    /\ Ended /\ attempt = 2 /\ Len(outcomes) = 3 /\ Len(sleeps) = 2
    /\ IsStatus(outcomes[1], 503) /\ outcomes[2].k = "timeout"

====
